---- MODULE Spec2Model ----
(***************************************************************************)
(* Model of the dive-trip bookkeeping of divelist.c: the trip registry     *)
(* (dive_trip_list), the per-trip membership lists linked through          *)
(* dive->next / dive->pprev, and the handlers that move dives between      *)
(* trips.  Pointers are small integers, NULL is 0.  The C functions are    *)
(* operators on a record `s` holding the heap; a handler is one action.    *)
(***************************************************************************)
EXTENDS Integers, Sequences, FiniteSets, TLC

\* ---- bounds of the model ----
NDives == 3          \* dives in dive_table
MaxTrips == 4        \* trip objects that can be allocated at one time
MaxWhen == 3         \* timestamps are 1..MaxWhen (0 is the unset timestamp)
MaxLoads == 2        \* trips a caller builds and hands to insert_trip
NHistory == 4        \* dives in the store that init_decompression walks
MaxDecoWhen == 4     \* start times of those dives are 1..MaxDecoWhen
MaxDuration == 1     \* their durations are 0..MaxDuration
MAX_CYLINDERS == 3   \* cylinders of a dive (dive.h)
G_MAXINT == 1        \* gint holds -G_MAXINT-1 .. G_MAXINT, fewer values than a timestamp
MaxSamples == 4      \* samples of the dive calculate_sac reads

NULL == 0
Dives == 1..NDives
TripIds == 1..MaxTrips
Times == 1..MaxWhen

\* dive.h: gap below which autogroup_dives joins a dive to the last trip,
\* in the model's time unit
TRIP_THRESHOLD == 2

\* 48 * 60 * 60 seconds, in the time unit of the replay model
FORTY_EIGHT_HOURS == 2

\* dive.h: permille of oxygen in air; the 21% of the specification
O2_IN_AIR == 210

\* depth in mm below which a sample counts as surface ("less than 10cm")
SURFACE_MM == 100

\* dive->location is not changed by any modelled operation: dive 1 has none
DiveLocation(d) == IF d = 1 THEN NULL ELSE 11

\* texts a loaded trip can carry (location / notes), NULL when unset
DraftTexts == {NULL, 21}

VARIABLES
    dive_table,      \* dive_table.dives[0 .. nr-1], as a sequence of dives
    when,            \* dive->when
    divetrip,        \* dive->divetrip
    next,            \* dive->next
    pprev,           \* dive->pprev: <<"T", t>> = &t->dives, <<"D", d>> = &d->next
    tripflag,        \* dive->tripflag
    trip,            \* fields of every trip object
    live,            \* trip objects allocated and not freed
    dive_trip_list,  \* the registry, in list order
    autogroup,       \* the autogroup preference
    cur_trip,        \* trip under construction by the loader, not yet inserted
    err,             \* "ok", or the way the process died
    loads,           \* trips built for insert_trip so far
    last,            \* the operation that ran last, with its arguments/results
    deco_table,      \* the dives init_decompression reads through get_dive
    deco,            \* the last call of init_decompression: its calls and its result
    cylinder,        \* dive->cylinder[0 .. MAX_CYLINDERS-1] of the dive get_dive_gas reads
    gas,             \* the last result of get_dive_gas
    sac_dive,        \* the dive calculate_sac reads: cylinders, duration, samples
    sac,             \* the last result of calculate_sac
    selected,        \* dive->selected
    amount_selected, \* the running count of selected dives
    selected_dive    \* index of the current dive, -1 for none

vars == <<dive_table, when, divetrip, next, pprev, tripflag, trip, live,
          dive_trip_list, autogroup, cur_trip, err, loads, last,
          deco_table, deco, cylinder, gas, sac_dive, sac,
          selected, amount_selected, selected_dive>>

decovars == <<deco_table, deco>>
gasvars == <<cylinder, gas>>
sacvars == <<sac_dive, sac>>
selvars == <<selected, amount_selected, selected_dive>>

tripvars == <<dive_table, when, divetrip, next, pprev, tripflag, trip, live,
              dive_trip_list, autogroup, cur_trip, err, loads, last>>

\* calloc(sizeof(dive_trip_t), 1)
ZeroTrip == [when |-> 0, location |-> NULL, notes |-> NULL, autogen |-> 0,
             nrdives |-> 0, dives |-> NULL, index |-> 0]

NoSlot == <<"N", 0>>

\* the heap as one value
Heap == [when |-> when, divetrip |-> divetrip, next |-> next, pprev |-> pprev,
         tripflag |-> tripflag, trip |-> trip, live |-> live,
         list |-> dive_trip_list, err |-> err]

Min(a, b) == IF a < b THEN a ELSE b

SetMin(S) == CHOOSE x \in S : \A y \in S : x <= y

\* ---- sequence helpers ----
InsertAt(q, i, x) ==
    [j \in 1..(Len(q) + 1) |-> IF j < i THEN q[j] ELSE IF j = i THEN x ELSE q[j - 1]]

Range(q) == {q[i] : i \in 1..Len(q)}

\* ---- the membership list of a trip, followed through next pointers ----
RECURSIVE Chain(_, _, _)
Chain(nx, d, fuel) ==
    IF d = NULL \/ fuel = 0 THEN <<>> ELSE <<d>> \o Chain(nx, nx[d], fuel - 1)

\* dives reachable from trip->dives
ChainOf(s, t) == Chain(s.next, s.trip[t].dives, NDives + 1)

\* dives whose divetrip is t
MembersOf(s, t) == {d \in Dives : s.divetrip[d] = t}

\* ---- find_trip_by_idx ----
RECURSIVE find_trip_by_idx_walk(_, _, _)
find_trip_by_idx_walk(s, i, idx) ==
    IF i > Len(s.list) THEN NULL
    ELSE IF s.trip[s.list[i]].index = idx THEN s.list[i]
    ELSE find_trip_by_idx_walk(s, i + 1, idx)

find_trip_by_idx(s, idx) ==
    IF idx >= 0 THEN NULL ELSE find_trip_by_idx_walk(s, 1, idx)

\* ---- find_matching_trip: the last trip at or before the time given ----
RECURSIVE find_matching_trip_walk(_, _, _)
find_matching_trip_walk(s, i, w) ==
    IF i + 1 <= Len(s.list) /\ s.trip[s.list[i + 1]].when <= w
    THEN find_matching_trip_walk(s, i + 1, w)
    ELSE s.list[i]

find_matching_trip(s, w) ==
    IF Len(s.list) = 0 \/ s.trip[s.list[1]].when > w THEN NULL
    ELSE find_matching_trip_walk(s, 1, w)

\* ---- delete_trip ----
delete_trip_no_unlink(s, t) == s

delete_trip(s, t) ==
    IF s.trip[t].dives # NULL THEN [s EXCEPT !.err = "assert"]
    ELSE [s EXCEPT !.list = SelectSeq(s.list, LAMBDA x : x # t),
                   !.live = s.live \ {t},
                   !.trip[t] = ZeroTrip]

\* ---- find_new_trip_start_time ----
RECURSIVE MinWhenFrom(_, _, _, _)
MinWhenFrom(s, d, w, fuel) ==
    IF d = NULL \/ fuel = 0 THEN w
    ELSE MinWhenFrom(s, s.next[d], IF s.when[d] < w THEN s.when[d] ELSE w, fuel - 1)

find_new_trip_start_time(s, t) ==
    IF s.trip[t].dives = NULL THEN [s EXCEPT !.err = "segv"]
    ELSE [s EXCEPT !.trip[t].when =
             MinWhenFrom(s, s.next[s.trip[t].dives], s.when[s.trip[t].dives],
                         NDives + 1)]

\* *pprev = v
StoreSlot(s, slot, v) ==
    IF slot[1] = "T" THEN
        IF slot[2] \in s.live THEN [s EXCEPT !.trip[slot[2]].dives = v]
        ELSE [s EXCEPT !.err = "segv"]
    ELSE IF slot[1] = "D" THEN [s EXCEPT !.next[slot[2]] = v]
    ELSE [s EXCEPT !.err = "segv"]

\* ---- remove_dive_from_trip ----
\* the dive is taken out of the member list of its trip
UnlinkDive(s, dive) ==
    [StoreSlot(s, s.pprev[dive], s.next[dive]) EXCEPT
        !.pprev = [d \in Dives |-> IF d = s.next[dive] THEN s.pprev[dive] ELSE @[d]],
        !.divetrip[dive] = NULL,
        !.tripflag[dive] = "NO_TRIP"]

\* the count goes down, but a trip left without dives stays
DropMember_keep_empty(s, dive, t) ==
    IF s.err # "ok" THEN s
    ELSE IF ~(s.trip[t].nrdives > 0) THEN [s EXCEPT !.err = "assert"]
    ELSE IF s.trip[t].nrdives > 1 /\ s.trip[t].when = s.when[dive]
    THEN find_new_trip_start_time([s EXCEPT !.trip[t].nrdives = @ - 1], t)
    ELSE [s EXCEPT !.trip[t].nrdives = @ - 1]

\* assert(trip->nrdives > 0) and what follows it
DropMember(s, dive, t) ==
    IF s.err # "ok" THEN s
    ELSE IF ~(s.trip[t].nrdives > 0) THEN [s EXCEPT !.err = "assert"]
    ELSE IF s.trip[t].nrdives = 1
    THEN delete_trip([s EXCEPT !.trip[t].nrdives = 0], t)
    ELSE IF s.trip[t].when = s.when[dive]
    THEN find_new_trip_start_time([s EXCEPT !.trip[t].nrdives = @ - 1], t)
    ELSE [s EXCEPT !.trip[t].nrdives = @ - 1]

remove_dive_from_trip(s, dive) ==
    IF s.err # "ok" \/ s.divetrip[dive] = NULL THEN s
    ELSE DropMember(UnlinkDive(s, dive), dive, s.divetrip[dive])

\* ---- add_dive_to_trip ----
\* the old first member keeps pointing back at trip->dives
LinkDive_stale_pprev(s, dive, t) ==
    IF s.err # "ok" THEN s
    ELSE [s EXCEPT
            !.trip[t].nrdives = @ + 1,
            !.trip[t].dives = dive,
            !.trip[t].when = IF s.when[dive] # 0 /\ @ > s.when[dive]
                             THEN s.when[dive] ELSE @,
            !.divetrip[dive] = t,
            !.tripflag[dive] = "ASSIGNED_TRIP",
            !.next[dive] = s.trip[t].dives,
            !.pprev[dive] = <<"T", t>>]

\* the statements from trip->nrdives++ on
LinkDive(s, dive, t) ==
    IF s.err # "ok" THEN s
    ELSE [s EXCEPT
            !.trip[t].nrdives = @ + 1,
            !.trip[t].dives = dive,
            !.trip[t].when = IF s.when[dive] # 0 /\ @ > s.when[dive]
                             THEN s.when[dive] ELSE @,
            !.divetrip[dive] = t,
            !.tripflag[dive] = "ASSIGNED_TRIP",
            !.next[dive] = s.trip[t].dives,
            !.pprev = [d \in Dives |->
                         IF d = dive THEN <<"T", t>>
                         ELSE IF d = s.trip[t].dives THEN <<"D", dive>>
                         ELSE @[d]]]

\* the dive is linked into the new trip while its old trip still lists it
add_dive_to_trip_no_unlink(s, dive, t) ==
    IF s.err # "ok" \/ s.divetrip[dive] = t THEN s
    ELSE IF s.trip[t].when = 0 THEN [s EXCEPT !.err = "assert"]
    ELSE LinkDive(s, dive, t)

\* the assertion on trip->when is made after the dive has left its old trip
add_dive_to_trip_late_assert(s, dive, t) ==
    IF s.err # "ok" \/ s.divetrip[dive] = t THEN s
    ELSE IF s.trip[t].when = 0
    THEN [remove_dive_from_trip(s, dive) EXCEPT !.err = "assert"]
    ELSE LinkDive(remove_dive_from_trip(s, dive), dive, t)

add_dive_to_trip(s, dive, t) ==
    IF s.err # "ok" \/ s.divetrip[dive] = t THEN s
    ELSE IF s.trip[t].when = 0 THEN [s EXCEPT !.err = "assert"]
    ELSE LinkDive(remove_dive_from_trip(s, dive), dive, t)

\* ---- trip allocation ----
\* calloc: the trip object handed out, NULL when the model's pool is exhausted
NewTrip(s) == IF s.live = TripIds THEN NULL ELSE SetMin(TripIds \ s.live)

\* a trip object that nothing references any more (it was never freed, but no
\* pointer to it is left): its storage plays no further part
Leak(s, t) ==
    IF t \in s.live /\ t \notin Range(s.list) /\ MembersOf(s, t) = {}
       /\ s.trip[t].dives = NULL
    THEN [s EXCEPT !.live = @ \ {t}, !.trip[t] = ZeroTrip]
    ELSE s

\* ---- insert_trip ----
\* the walk  while ((trip = *p) != NULL && trip->when < dive_trip->when)
RECURSIVE insert_trip_pos(_, _, _)
insert_trip_pos(s, i, w) ==
    IF i <= Len(s.list) /\ s.trip[s.list[i]].when < w
    THEN insert_trip_pos(s, i + 1, w)
    ELSE i

\* the loop  while (divep) { add_dive_to_trip(divep, trip); divep = divep->next; }
RECURSIVE insert_trip_move(_, _, _, _)
insert_trip_move(s, divep, t, fuel) ==
    IF divep = NULL \/ s.err # "ok" THEN s
    ELSE IF fuel = 0 THEN [s EXCEPT !.err = "loop"]
    ELSE LET follow(s1) == insert_trip_move(s1, s1.next[divep], t, fuel - 1)
         IN follow(add_dive_to_trip(s, divep, t))

\* returns the heap and the value left in *dive_trip_p
insert_trip(s, draft) ==
    LET i == insert_trip_pos(s, 1, s.trip[draft].when)
        t == IF i <= Len(s.list) THEN s.list[i] ELSE NULL
    IN IF t # NULL /\ s.trip[t].when = s.trip[draft].when
       THEN [s |-> insert_trip_move(
                     [s EXCEPT !.trip[t].location =
                                   IF @ = NULL THEN s.trip[draft].location ELSE @,
                               !.trip[t].notes =
                                   IF @ = NULL THEN s.trip[draft].notes ELSE @],
                     s.trip[draft].dives, t, 2 * NDives + 2),
             ret |-> t]
       ELSE [s |-> [s EXCEPT !.list = InsertAt(s.list, i, draft)], ret |-> draft]

\* ---- create_and_hookup_trip_from_dive ----
create_and_hookup_trip_from_dive(s, dive) ==
    LET t == NewTrip(s)
        hookup(r) ==
            [s |-> add_dive_to_trip(
                     [(IF r.ret # t THEN Leak(r.s, t) ELSE r.s)
                        EXCEPT !.tripflag[dive] = "IN_TRIP"],
                     dive, r.ret),
             ret |-> r.ret]
    IN IF s.err # "ok" THEN [s |-> s, ret |-> NULL]
       ELSE IF t = NULL THEN [s |-> [s EXCEPT !.err = "nomem"], ret |-> NULL]
       ELSE hookup(insert_trip(
                     [s EXCEPT !.live = @ \cup {t},
                               !.trip[t] = [ZeroTrip EXCEPT
                                              !.when = s.when[dive],
                                              !.location = DiveLocation(dive)]],
                     t))

\* dive.h: a dive that was never assigned to or removed from a trip
DIVE_NEEDS_TRIP(s, dive) == s.tripflag[dive] = "TF_NONE"

\* ---- autogroup_dives ----
\* every dive that needs a trip joins the trip of the dive before it
RECURSIVE autogroup_no_threshold(_, _, _, _)
autogroup_no_threshold(s, tbl, i, lastdive) ==
    IF i > Len(tbl) \/ s.err # "ok" THEN s
    ELSE IF s.divetrip[tbl[i]] # NULL
    THEN autogroup_no_threshold(s, tbl, i + 1, tbl[i])
    ELSE IF ~DIVE_NEEDS_TRIP(s, tbl[i])
    THEN autogroup_no_threshold(s, tbl, i + 1, NULL)
    ELSE IF lastdive # NULL /\ s.divetrip[lastdive] # NULL
    THEN autogroup_no_threshold(add_dive_to_trip(s, tbl[i], s.divetrip[lastdive]),
                                tbl, i + 1, tbl[i])
    ELSE autogroup_no_threshold(create_and_hookup_trip_from_dive(s, tbl[i]).s,
                                tbl, i + 1, tbl[i])

\* the loop remembers a dive that takes no trip as the last dive seen
RECURSIVE autogroup_keeps_last(_, _, _, _)
autogroup_keeps_last(s, tbl, i, lastdive) ==
    IF i > Len(tbl) \/ s.err # "ok" THEN s
    ELSE IF s.divetrip[tbl[i]] # NULL
    THEN autogroup_keeps_last(s, tbl, i + 1, tbl[i])
    ELSE IF ~DIVE_NEEDS_TRIP(s, tbl[i])
    THEN autogroup_keeps_last(s, tbl, i + 1, tbl[i])
    ELSE IF lastdive # NULL /\ s.when[tbl[i]] < s.when[lastdive] + TRIP_THRESHOLD
    THEN IF s.divetrip[lastdive] = NULL
         THEN IF DiveLocation(tbl[i]) # NULL
              THEN [s EXCEPT !.err = "segv"]
              ELSE autogroup_keeps_last(s, tbl, i + 1, tbl[i])
         ELSE autogroup_keeps_last(add_dive_to_trip(s, tbl[i], s.divetrip[lastdive]),
                                   tbl, i + 1, tbl[i])
    ELSE autogroup_keeps_last(
             [create_and_hookup_trip_from_dive(s, tbl[i]).s EXCEPT
                 !.trip[create_and_hookup_trip_from_dive(s, tbl[i]).ret].autogen = 1],
             tbl, i + 1, tbl[i])

RECURSIVE autogroup_loop(_, _, _, _)
autogroup_loop(s, tbl, i, lastdive) ==
    IF i > Len(tbl) \/ s.err # "ok" THEN s
    ELSE
      LET dive == tbl[i]
          \* if (dive->location && !dive_trip->location) dive_trip->location = ...
          setloc(s1, t) ==
              IF s1.err = "ok" /\ DiveLocation(dive) # NULL
                 /\ s1.trip[t].location = NULL
              THEN [s1 EXCEPT !.trip[t].location = DiveLocation(dive)]
              ELSE s1
          \* dive_trip->autogen = 1
          setauto(r) ==
              IF r.s.err = "ok" THEN [r.s EXCEPT !.trip[r.ret].autogen = 1] ELSE r.s
      IN
      IF s.divetrip[dive] # NULL THEN autogroup_loop(s, tbl, i + 1, dive)
      ELSE IF ~DIVE_NEEDS_TRIP(s, dive) THEN autogroup_loop(s, tbl, i + 1, NULL)
      ELSE IF lastdive # NULL /\ s.when[dive] < s.when[lastdive] + TRIP_THRESHOLD
      THEN
        IF s.divetrip[lastdive] = NULL
        THEN \* add_dive_to_trip(dive, NULL) returns at once; trip->location follows
             IF DiveLocation(dive) # NULL
             THEN [s EXCEPT !.err = "segv"]
             ELSE autogroup_loop(s, tbl, i + 1, dive)
        ELSE autogroup_loop(
                 setloc(add_dive_to_trip(s, dive, s.divetrip[lastdive]),
                        s.divetrip[lastdive]),
                 tbl, i + 1, dive)
      ELSE autogroup_loop(setauto(create_and_hookup_trip_from_dive(s, dive)),
                          tbl, i + 1, dive)

\* a run that stops after the first dive that needed a trip
autogroup_dives_once(s, tbl) ==
    LET needy == {i \in 1..Len(tbl) :
                     s.divetrip[tbl[i]] = NULL /\ DIVE_NEEDS_TRIP(s, tbl[i])}
    IN autogroup_loop(s, IF needy = {} THEN tbl ELSE SubSeq(tbl, 1, SetMin(needy)),
                      1, NULL)

autogroup_dives(s, tbl) == autogroup_loop(s, tbl, 1, NULL)

\* ---- clear_trip_indexes ----
clear_trip_indexes(s) ==
    [s EXCEPT !.trip = [t \in TripIds |->
                          IF t \in Range(s.list) THEN [s.trip[t] EXCEPT !.index = 0]
                          ELSE s.trip[t]]]

\* ---- fill_dive_list: the trip rows, numbered from the last dive backwards ----
RECURSIVE fill_rows(_, _, _, _)
fill_rows(s, tbl, i, trip_index) ==
    IF i < 1 THEN s
    ELSE IF s.divetrip[tbl[i]] # NULL /\ s.trip[s.divetrip[tbl[i]]].index = 0
    THEN fill_rows([s EXCEPT !.trip[s.divetrip[tbl[i]]].index = trip_index + 1],
                   tbl, i - 1, trip_index + 1)
    ELSE fill_rows(s, tbl, i - 1, trip_index)

fill_dive_list(s, tbl, ag) ==
    LET rows(s1) == IF s1.err # "ok" THEN s1
                    ELSE fill_rows(clear_trip_indexes(s1), tbl, Len(tbl), 0)
    IN rows(IF ag THEN autogroup_dives(s, tbl) ELSE s)

\* ---- dive_list_update_dives ----
dive_list_update_dives(s, tbl, ag) == fill_dive_list(s, tbl, ag)

\* ---- remove_autogen_trips ----
\* the loop without the test of the autogen flag
RECURSIVE remove_every_trip_loop(_, _, _)
remove_every_trip_loop(s, tbl, i) ==
    IF i > Len(tbl) \/ s.err # "ok" THEN s
    ELSE IF s.divetrip[tbl[i]] # NULL
    THEN remove_every_trip_loop(remove_dive_from_trip(s, tbl[i]), tbl, i + 1)
    ELSE remove_every_trip_loop(s, tbl, i + 1)

RECURSIVE remove_autogen_loop(_, _, _)
remove_autogen_loop(s, tbl, i) ==
    IF i > Len(tbl) \/ s.err # "ok" THEN s
    ELSE IF s.divetrip[tbl[i]] # NULL /\ s.trip[s.divetrip[tbl[i]]].autogen # 0
    THEN remove_autogen_loop(remove_dive_from_trip(s, tbl[i]), tbl, i + 1)
    ELSE remove_autogen_loop(s, tbl, i + 1)

remove_autogen_trips(s, tbl) == remove_autogen_loop(s, tbl, 1)

\* ---- the rows of the tree model ----
\* The tree model is shown only when sorted by dive_nr_sort (sort_column_change_cb),
\* ascending or descending; rows with equal keys come in any order.
SortOrders == {"ASC", "DESC"}

SortedSeqs(S, key, order) ==
    {q \in [1..Cardinality(S) -> S] :
        /\ \A i, j \in 1..Cardinality(S) : i < j => q[i] # q[j]
        /\ \A i, j \in 1..Cardinality(S) : i < j =>
              IF order = "ASC" THEN key[q[i]] <= key[q[j]] ELSE key[q[i]] >= key[q[j]]}

\* report_dives (not in divelist.c) re-sorts dive_table by time
SortedTables(S, w) == SortedSeqs(S, w, "ASC")

\* trips that have a row: fill_dive_list makes one for the trip of each dive
RowTrips(s, tbl) == {s.divetrip[d] : d \in Range(tbl)} \ {NULL}

\* top-level keys as dive_nr_sort sees them: the trip date for a trip row,
\* the dive's own date for a dive outside any trip
TopKeys(s, tbl) ==
    {s.trip[t].when : t \in RowTrips(s, tbl)} \cup
    {s.when[d] : d \in {e \in Range(tbl) : s.divetrip[e] = NULL}}

\* two trip rows can be neighbours when no other top-level key lies strictly between
AdjacentRows(s, tbl, a, b) ==
    LET lo == Min(s.trip[a].when, s.trip[b].when)
        hi == IF s.trip[a].when > s.trip[b].when THEN s.trip[a].when ELSE s.trip[b].when
    IN a # b /\ ~ \E k \in TopKeys(s, tbl) : lo < k /\ k < hi

\* ---- update_trip_timestamp: MIN of the first and last child row ----
update_trip_timestamp(s, children, t, olddate) ==
    IF Len(children) = 0 THEN [s |-> s, date |-> olddate]
    ELSE
      LET tnew == Min(s.when[children[1]], s.when[children[Len(children)]])
      IN [s |-> IF t # NULL /\ s.err = "ok" THEN [s EXCEPT !.trip[t].when = tnew] ELSE s,
          date |-> tnew]

\* ---- insert_trip_before: the loop from the last child back to the dive ----
RECURSIVE insert_trip_before_loop(_, _, _, _, _, _, _)
insert_trip_before_loop(s, kids, i, k, new_divetrip, pdate, newkids) ==
    IF i < k \/ s.err # "ok" THEN s
    ELSE
      LET dive == kids[i]
          \* move_dive_between_trips(&nextsibling, &parent, &newparent, NULL, FALSE)
          rest == SubSeq(kids, 1, i - 1)
          moved == <<dive>> \o newkids
          again(u1, u2) ==
              insert_trip_before_loop(u2.s, kids, i - 1, k, new_divetrip, u1.date, moved)
          newstamp(u1) ==
              again(u1, update_trip_timestamp(u1.s, moved, u1.s.divetrip[dive], 0))
          oldstamp(s1) ==
              newstamp(update_trip_timestamp(s1, rest, find_matching_trip(s1, pdate),
                                             pdate))
      IN oldstamp(add_dive_to_trip(s, dive, new_divetrip))

\* kids: the child rows of the trip in display order; k: the row clicked on
insert_trip_before(s, kids, k, pdate) ==
    LET dive == kids[k]
        prev_dive == kids[k - 1]
        pt == s.divetrip[prev_dive]
        loop(r) == insert_trip_before_loop(r.s, kids, Len(kids), k, r.ret, pdate, <<>>)
    IN loop(create_and_hookup_trip_from_dive(
              IF s.when[dive] < s.when[prev_dive] /\ pt # NULL
                 /\ s.trip[pt].when < s.when[prev_dive]
              THEN [s EXCEPT !.trip[pt].when = s.when[prev_dive]]
              ELSE s,
              dive))

\* ---- merge_trips_cb ----
\* uaf: what the read of thistrip->dives yields once thistrip has been freed
RECURSIVE merge_trips_loop(_, _, _, _, _)
merge_trips_loop(s, thistrip, prevtrip, uaf, fuel) ==
    IF s.err # "ok" THEN s
    ELSE IF thistrip \notin s.live
    THEN IF uaf = "null" THEN s ELSE [s EXCEPT !.err = "segv"]
    ELSE IF s.trip[thistrip].dives = NULL THEN s
    ELSE IF prevtrip = NULL THEN [s EXCEPT !.err = "segv"]
    ELSE IF fuel = 0 THEN [s EXCEPT !.err = "loop"]
    ELSE merge_trips_loop(add_dive_to_trip(s, s.trip[thistrip].dives, prevtrip),
                          thistrip, prevtrip, uaf, fuel - 1)

merge_trips_cb(s, when_this, when_prev, uaf) ==
    LET thistrip == find_matching_trip(s, when_this)
        prevtrip == find_matching_trip(s, when_prev)
    IN IF thistrip = prevtrip THEN [s EXCEPT !.err = "assert"]
       ELSE IF thistrip = NULL THEN [s EXCEPT !.err = "segv"]
       ELSE merge_trips_loop(s, thistrip, prevtrip, uaf, NDives + 1)

\* ---- edit_dive_when_cb, up to dive->when = when ----
edit_dive_when(s, dive, w) ==
    LET t == s.divetrip[dive]
    IN [(IF t # NULL /\ s.trip[t].nrdives = 1
         THEN [s EXCEPT !.trip[t].when = w]
         ELSE IF t # NULL /\ s.trip[t].when > w
         THEN remove_dive_from_trip(s, dive)
         ELSE IF find_matching_trip(s, w) # t
         THEN remove_dive_from_trip(s, dive)
         ELSE s)
        EXCEPT !.when[dive] = w]


\* ======================= init_decompression =======================
\* A dive pointer is a position of deco_table counted from 1, NULL is 0;
\* get_dive(i) takes the C index, counted from 0.
get_dive(tbl, i) == IF i >= 0 /\ i < Len(tbl) THEN i + 1 ELSE NULL

\* get_divenr: the index of the dive in the table, dive_table.nr when absent
RECURSIVE get_divenr_from(_, _, _)
get_divenr_from(tbl, dive, divenr) ==
    IF divenr < Len(tbl) /\ get_dive(tbl, divenr) # dive
    THEN get_divenr_from(tbl, dive, divenr + 1)
    ELSE divenr

get_divenr(tbl, dive) == get_divenr_from(tbl, dive, 0)

\* one call made by init_decompression.  kind: "clear_deco", "add_dive_to_deco",
\* "sample" (add_segment of one second of a dive profile) or "surface"
\* (add_segment of a surface interval).  dive: the dive whose data is fed.
\* start: the second of the profile, or the time the interval starts.
Call(kind, dive, pressure, time, start) ==
    [kind |-> kind, dive |-> dive, pressure |-> pressure, time |-> time,
     start |-> start]

\* add_dive_to_deco: between two samples, one add_segment per second
RECURSIVE add_dive_to_deco_from(_, _, _)
add_dive_to_deco_from(tbl, pdive, i) ==
    IF i >= Len(tbl[pdive].sample) THEN <<>>
    ELSE [j \in 1..(IF tbl[pdive].sample[i + 1] > tbl[pdive].sample[i]
                    THEN tbl[pdive].sample[i + 1] - tbl[pdive].sample[i] ELSE 0) |->
             Call("sample", pdive, 0, 1, tbl[pdive].sample[i] + j - 1)]
         \o add_dive_to_deco_from(tbl, pdive, i + 1)

add_dive_to_deco(tbl, pdive) ==
    <<Call("add_dive_to_deco", pdive, 0, 0, 0)>> \o add_dive_to_deco_from(tbl, pdive, 1)

\* the backward walk compares every dive with the start of the target only
RECURSIVE window_from_target(_, _, _, _)
window_from_target(tbl, dive, i, w) ==
    IF i = 0 \/ i - 1 = 0 THEN [w EXCEPT !.i = 0]
    ELSE IF tbl[dive].divetrip # NULL
            /\ tbl[get_dive(tbl, i - 1)].divetrip # tbl[dive].divetrip
    THEN window_from_target(tbl, dive, i - 1, w)
    ELSE IF \/ tbl[get_dive(tbl, i - 1)].when > tbl[dive].when
            \/ tbl[get_dive(tbl, i - 1)].when + tbl[get_dive(tbl, i - 1)].duration
                   + FORTY_EIGHT_HOURS < tbl[dive].when
    THEN [w EXCEPT !.i = i - 1]
    ELSE window_from_target(tbl, dive, i - 1,
             [i |-> i - 1,
              when |-> tbl[get_dive(tbl, i - 1)].when,
              lasttime |-> tbl[get_dive(tbl, i - 1)].when
                            + tbl[get_dive(tbl, i - 1)].duration])

\* while (i && --i) { ... }: w holds i, when and lasttime
RECURSIVE window_loop(_, _, _, _)
window_loop(tbl, dive, i, w) ==
    IF i = 0 \/ i - 1 = 0 THEN [w EXCEPT !.i = 0]
    ELSE IF tbl[dive].divetrip # NULL
            /\ tbl[get_dive(tbl, i - 1)].divetrip # tbl[dive].divetrip
    THEN window_loop(tbl, dive, i - 1, w)
    ELSE IF \/ tbl[get_dive(tbl, i - 1)].when > w.when
            \/ tbl[get_dive(tbl, i - 1)].when + tbl[get_dive(tbl, i - 1)].duration
                   + FORTY_EIGHT_HOURS < w.when
    THEN [w EXCEPT !.i = i - 1]
    ELSE window_loop(tbl, dive, i - 1,
             [i |-> i - 1,
              when |-> tbl[get_dive(tbl, i - 1)].when,
              lasttime |-> tbl[get_dive(tbl, i - 1)].when
                            + tbl[get_dive(tbl, i - 1)].duration])

\* the body of the forward loop after add_dive_to_deco: fed are the calls so far
surface_after(tbl, pdive, st, fed) ==
    IF tbl[pdive].when > st.lasttime
    THEN [lasttime |-> tbl[pdive].when + tbl[pdive].duration,
          deco_init |-> TRUE,
          calls |-> Append(fed, Call("surface", pdive, tbl[pdive].surface,
                                     tbl[pdive].when - st.lasttime, st.lasttime)),
          tissue_tolerance |-> Len(fed) + 1]
    ELSE [st EXCEPT !.deco_init = TRUE, !.calls = fed]

\* the tissues are cleared after the first dive has been fed, not before
replay_dive_clear_after(tbl, pdive, st) ==
    surface_after(tbl, pdive, st,
        st.calls
        \o add_dive_to_deco(tbl, pdive)
        \o (IF st.deco_init THEN <<>>
            ELSE <<Call("clear_deco", pdive, tbl[pdive].surface, 0, 0)>>))

replay_dive(tbl, pdive, st) ==
    surface_after(tbl, pdive, st,
        st.calls
        \o (IF st.deco_init THEN <<>>
            ELSE <<Call("clear_deco", pdive, tbl[pdive].surface, 0, 0)>>)
        \o add_dive_to_deco(tbl, pdive))

\* the forward loop without the test on the trip of the dive
RECURSIVE replay_loop_any_trip(_, _, _, _, _)
replay_loop_any_trip(tbl, dive, divenr, i, st) ==
    IF i + 1 >= divenr THEN st
    ELSE replay_loop_any_trip(tbl, dive, divenr, i + 1,
                              replay_dive(tbl, get_dive(tbl, i + 1), st))

\* while (++i < divenr) { ... }: st holds lasttime, deco_init, the calls made
\* and tissue_tolerance, the number of the call that produced it (0: never set)
RECURSIVE replay_loop(_, _, _, _, _)
replay_loop(tbl, dive, divenr, i, st) ==
    IF i + 1 >= divenr THEN st
    ELSE IF tbl[dive].divetrip # NULL
            /\ tbl[dive].divetrip # tbl[get_dive(tbl, i + 1)].divetrip
    THEN replay_loop(tbl, dive, divenr, i + 1, st)
    ELSE replay_loop(tbl, dive, divenr, i + 1,
                     replay_dive(tbl, get_dive(tbl, i + 1), st))

\* "add the final surface time"
final_surface(tbl, dive, st) ==
    IF st.lasttime # 0 /\ tbl[dive].when > st.lasttime
    THEN [st EXCEPT
            !.calls = Append(@, Call("surface", dive, tbl[dive].surface,
                                     tbl[dive].when - st.lasttime, st.lasttime)),
            !.tissue_tolerance = Len(st.calls) + 1]
    ELSE st

\* if (!deco_init) clear_deco(...); return tissue_tolerance;
\* junk: what the read of tissue_tolerance yields when nothing was stored in it
deco_return(tbl, dive, st, junk) ==
    [dive |-> dive,
     calls |-> IF st.deco_init THEN st.calls
               ELSE Append(st.calls, Call("clear_deco", dive, tbl[dive].surface, 0, 0)),
     ret |-> IF st.tissue_tolerance = 0
             THEN [from |-> "uninitialized", n |-> junk]
             ELSE [from |-> "add_segment", n |-> st.tissue_tolerance]]

deco_replay(tbl, dive, divenr, w, junk) ==
    deco_return(tbl, dive,
        final_surface(tbl, dive,
            replay_loop(tbl, dive, divenr, w.i,
                [lasttime |-> w.lasttime, deco_init |-> FALSE, calls |-> <<>>,
                 tissue_tolerance |-> 0])),
        junk)

init_decompression(tbl, dive, junk) ==
    IF dive = NULL
    THEN [dive |-> NULL, calls |-> <<>>, ret |-> [from |-> "zero", n |-> 0]]
    ELSE deco_replay(tbl, dive, get_divenr(tbl, dive),
             window_loop(tbl, dive, get_divenr(tbl, dive),
                 [i |-> get_divenr(tbl, dive), when |-> tbl[dive].when,
                  lasttime |-> 0]),
             junk)


\* ======================= get_dive_gas =======================
\* cylinder_none (dive.h): nothing at all is recorded for the cylinder; size
\* stands for every field of it other than the mixture
cylinder_none(cyl) == cyl.o2 = 0 /\ cyl.he = 0 /\ cyl.size = 0

\* the oxygen of a mixture no longer decides between two mixtures of equal helium
gas_step_first_wins(m, o2, he) ==
    IF he > m.maxhe
    THEN [maxo2 |-> o2, maxhe |-> he, mino2 |-> Min(o2, m.mino2)]
    ELSE [m EXCEPT !.mino2 = Min(o2, m.mino2)]

\* the loop body once o2 holds the oxygen permille, O2_IN_AIR for 0
gas_step(m, o2, he) ==
    IF he > m.maxhe
    THEN [maxo2 |-> o2, maxhe |-> he, mino2 |-> Min(o2, m.mino2)]
    ELSE IF he < m.maxhe \/ o2 <= m.maxo2
    THEN [m EXCEPT !.mino2 = Min(o2, m.mino2)]
    ELSE [maxo2 |-> o2, maxhe |-> he, mino2 |-> Min(o2, m.mino2)]

\* for (i = 0; i < MAX_CYLINDERS; i++)
RECURSIVE get_dive_gas_loop(_, _, _)
get_dive_gas_loop(cyl, i, m) ==
    IF i > Len(cyl) THEN m
    ELSE IF cylinder_none(cyl[i]) THEN get_dive_gas_loop(cyl, i + 1, m)
    ELSE get_dive_gas_loop(cyl, i + 1,
             gas_step(m, IF cyl[i].o2 = 0 THEN O2_IN_AIR ELSE cyl[i].o2, cyl[i].he))

\* air is reported like any other mixture
all_air_kept(m) == [o2 |-> m.maxo2, he |-> m.maxhe, o2low |-> m.mino2]

\* "All air? Show/sort as "air"/zero", then the three results
all_air(m) ==
    IF m.maxhe = 0 /\ m.maxo2 = O2_IN_AIR /\ m.mino2 = m.maxo2
    THEN [o2 |-> 0, he |-> 0, o2low |-> 0]
    ELSE [o2 |-> m.maxo2, he |-> m.maxhe, o2low |-> m.mino2]

get_dive_gas(cyl) ==
    all_air(get_dive_gas_loop(cyl, 1, [maxo2 |-> -1, maxhe |-> -1, mino2 |-> 1000]))


\* ======================= calculate_sac =======================
\* Doubles are integers here: pressures of cylinders in atm, sizes in liters,
\* so that air use is in liters and a sum is zero exactly when the C sum is.

\* cyl->start.mbar ? cyl->start : cyl->sample_start, and the same for the end
start_of(cyl) == IF cyl.start # 0 THEN cyl.start ELSE cyl.sample_start
end_of(cyl) == IF cyl.end # 0 THEN cyl.end ELSE cyl.sample_end

RECURSIVE calculate_airuse_from(_, _)
calculate_airuse_from(cyl, i) ==
    IF i > Len(cyl) THEN 0
    ELSE (IF cyl[i].size = 0 THEN 0
          ELSE (start_of(cyl[i]) - end_of(cyl[i])) * cyl[i].size)
         + calculate_airuse_from(cyl, i + 1)

calculate_airuse(dive) == calculate_airuse_from(dive.cylinder, 1)

\* while (end < dc->samples && dc->sample[end].depth.mm < 100) end++;
RECURSIVE surface_run_end(_, _)
surface_run_end(sample, end) ==
    IF end < Len(sample) /\ sample[end + 1].depth < SURFACE_MM
    THEN surface_run_end(sample, end + 1)
    ELSE end

\* the loop that takes surface time out of the duration; i and end are C indexes
RECURSIVE eliminate_surface(_, _, _)
surface_run(sample, i, end, duration) ==
    IF end < Len(sample)
    THEN eliminate_surface(sample, end + 1,
                           duration - (sample[end].time - sample[i + 1].time))
    ELSE eliminate_surface(sample, i + 1, duration)

eliminate_surface(sample, i, duration) ==
    IF i >= Len(sample) THEN duration
    ELSE IF sample[i + 1].depth < SURFACE_MM
    THEN surface_run(sample, i, surface_run_end(sample, i + 1), duration)
    ELSE eliminate_surface(sample, i + 1, duration)

\* depth_to_mbar (dive.h): one bar at the surface and one more every 10 m
depth_to_mbar(mm) == 1000 + mm \div 10

\* conversion of a double to int: the fraction is dropped
TruncDiv(x, y) ==
    IF (x >= 0) = (y > 0) THEN (IF x >= 0 THEN x ELSE -x) \div (IF y > 0 THEN y ELSE -y)
    ELSE -((IF x >= 0 THEN x ELSE -x) \div (IF y > 0 THEN y ELSE -y))

\* what the conversion of an infinite or undefined double to int can give
Unrepresentable == {-2147483647, 2147483647}

\* sac = airuse / pressure * 60 / duration; return sac * 1000
sac_value(dive, airuse, duration, junk) ==
    IF duration = 0
    THEN [called |-> TRUE, defined |-> FALSE, ret |-> junk,
          airuse |-> airuse, duration |-> duration]
    ELSE [called |-> TRUE, defined |-> TRUE,
          ret |-> TruncDiv(airuse * 60 * 1000 * 1000,
                           depth_to_mbar(dive.meandepth) * duration),
          airuse |-> airuse, duration |-> duration]

\* neither the air use nor the duration is looked at before the division
calculate_sac_unchecked(dive, junk) ==
    sac_value(dive, calculate_airuse(dive),
              eliminate_surface(dive.sample, 0, dive.duration), junk)

calculate_sac(dive, junk) ==
    IF calculate_airuse(dive) = 0
    THEN [called |-> TRUE, defined |-> TRUE, ret |-> 0,
          airuse |-> 0, duration |-> dive.duration]
    ELSE IF dive.duration = 0
    THEN [called |-> TRUE, defined |-> TRUE, ret |-> 0,
          airuse |-> calculate_airuse(dive), duration |-> 0]
    ELSE sac_value(dive, calculate_airuse(dive),
                   eliminate_surface(dive.sample, 0, dive.duration), junk)


\* ======================= the selection and the store =======================
\* The store holds dive pointers; get_dive(idx) is dive_table.dives[idx], NULL
\* for an index outside 0 .. nr-1.
dive_at(tbl, idx) == IF idx >= 0 /\ idx < Len(tbl) THEN tbl[idx + 1] ELSE NULL

\* get_divenr on the store: the first index that holds the dive, nr when none does
RECURSIVE divenr_from(_, _, _)
divenr_from(tbl, dive, divenr) ==
    IF divenr < Len(tbl) /\ dive_at(tbl, divenr) # dive
    THEN divenr_from(tbl, dive, divenr + 1)
    ELSE divenr

divenr_of(tbl, dive) == divenr_from(tbl, dive, 0)

\* the selection as one value
Selection == [selected |-> selected, amount |-> amount_selected, cur |-> selected_dive]

\* select_dive
select_dive(tbl, sel, idx) ==
    LET dive == dive_at(tbl, idx)
    IN IF dive # NULL /\ ~ sel.selected[dive]
       THEN [selected |-> [sel.selected EXCEPT ![dive] = TRUE],
             amount |-> sel.amount + 1,
             cur |-> idx]
       ELSE sel

\* deselect_dive: while (--selected_dive >= 0)
RECURSIVE pick_below(_, _, _)
pick_below(tbl, flags, i) ==
    IF i < 0 THEN i
    ELSE IF dive_at(tbl, i) # NULL /\ flags[dive_at(tbl, i)] THEN i
    ELSE pick_below(tbl, flags, i - 1)

\* deselect_dive: while (++selected_dive < dive_table.nr)
RECURSIVE pick_above(_, _, _)
pick_above(tbl, flags, i) ==
    IF i >= Len(tbl) THEN i
    ELSE IF dive_at(tbl, i) # NULL /\ flags[dive_at(tbl, i)] THEN i
    ELSE pick_above(tbl, flags, i + 1)

\* deselect_dive
deselect_dive(tbl, sel, idx) ==
    LET dive == dive_at(tbl, idx)
        flags == [sel.selected EXCEPT ![dive] = FALSE]
        amount == sel.amount - 1
        cur == IF sel.cur = idx /\ amount > 0
               THEN IF pick_below(tbl, flags, idx - 1) >= 0
                    THEN pick_below(tbl, flags, idx - 1)
                    ELSE pick_above(tbl, flags, idx + 1)
               ELSE IF amount = 0 THEN 0 - 1 ELSE sel.cur
    IN IF dive # NULL /\ sel.selected[dive]
       THEN [selected |-> flags, amount |-> amount, cur |-> cur]
       ELSE sel

\* add_single_dive: the table after the loop that shifts the later entries up
add_single_dive_table(tbl, idx, dive) == InsertAt(tbl, idx + 1, dive)

\* add_single_dive
add_single_dive(tbl, sel, idx, dive) ==
    [tbl |-> add_single_dive_table(tbl, idx, dive),
     sel |-> IF sel.selected[dive]
             THEN [sel EXCEPT !.amount = @ + 1]
             ELSE sel]

\* delete_single_dive: the table after the loop that shifts the later entries down
delete_single_dive_table(tbl, idx) ==
    [i \in 1..(Len(tbl) - 1) |-> IF i < idx + 1 THEN tbl[i] ELSE tbl[i + 1]]

\* delete_single_dive that drops the last entry instead of the one at idx
delete_single_dive_last(s, tbl, sel, idx) ==
    LET dive == dive_at(tbl, idx)
    IN IF dive = NULL
       THEN [s |-> s, tbl |-> tbl, sel |-> sel]
       ELSE [s |-> remove_dive_from_trip(s, dive),
             tbl |-> SubSeq(tbl, 1, Len(tbl) - 1),
             sel |-> [selected |-> [sel.selected EXCEPT ![dive] = FALSE],
                      amount |-> IF sel.selected[dive]
                                 THEN sel.amount - 1 ELSE sel.amount,
                      cur |-> sel.cur]]

\* delete_single_dive; the dive is freed, a later dive object at that address
\* starts with a cleared flag
delete_single_dive(s, tbl, sel, idx) ==
    LET dive == dive_at(tbl, idx)
    IN IF dive = NULL
       THEN [s |-> s, tbl |-> tbl, sel |-> sel]
       ELSE [s |-> remove_dive_from_trip(s, dive),
             tbl |-> delete_single_dive_table(tbl, idx),
             sel |-> [selected |-> [sel.selected EXCEPT ![dive] = FALSE],
                      amount |-> IF sel.selected[dive]
                                 THEN sel.amount - 1 ELSE sel.amount,
                      cur |-> sel.cur]]

\* show_and_select_dive: get_divenr is never negative, so the early return of
\* line 2933 is never taken; the selection calls of go_to_iter find the flags
\* already set and change nothing
show_and_select_dive(tbl, sel, dive) ==
    LET divenr == divenr_of(tbl, dive)
    IN IF divenr < 0
       THEN sel
       ELSE [selected |-> [d \in Dives |->
                             IF d = dive THEN TRUE
                             ELSE IF d \in Range(tbl) THEN FALSE
                             ELSE sel.selected[d]],
             amount |-> 1,
             cur |-> divenr]

\* ======================= the rows and their order =======================
\* A row as the sort callback reads it: DIVE_INDEX and DIVE_DATE.  trip is the
\* trip the row stands for or the trip of its dive, parent the trip of the row
\* it hangs below.  A trip row made by fill_dive_list has index -trip->index,
\* one made by turn_dive_into_trip has -1.
Rows(s, tbl) ==
    {[idx |-> IF s.trip[t].index > 0 THEN 0 - s.trip[t].index ELSE 0 - 1,
      date |-> s.trip[t].when, trip |-> t, parent |-> NULL] :
        t \in RowTrips(s, tbl)} \cup
    {[idx |-> i - 1, date |-> s.when[tbl[i]],
      trip |-> s.divetrip[tbl[i]], parent |-> s.divetrip[tbl[i]]] :
        i \in 1..Len(tbl)}

\* a difference of two timestamps returned as gint: the low bits, signed
to_gint(x) == ((x + G_MAXINT + 1) % (2 * (G_MAXINT + 1))) - (G_MAXINT + 1)

\* dive_nr_sort: tripa / tripb
row_trip(s, tbl, r) ==
    IF r.idx < 0 THEN find_trip_by_idx(s, r.idx)
    ELSE IF dive_at(tbl, r.idx) # NULL THEN s.divetrip[dive_at(tbl, r.idx)]
    ELSE NULL

\* dive_nr_sort: when_a / when_b
row_when(s, tbl, r, other) ==
    IF row_trip(s, tbl, r) # row_trip(s, tbl, other) /\ row_trip(s, tbl, r) # NULL
    THEN s.trip[row_trip(s, tbl, r)].when
    ELSE r.date

\* dive_nr_sort
dive_nr_sort(s, tbl, a, b) ==
    to_gint(row_when(s, tbl, a, b) - row_when(s, tbl, b, a))

\* ======================= the state machine =======================

NoOp == [op |-> "none", d |-> NULL, t |-> NULL, pre |-> NULL]

\* nothing has been computed yet
NoDeco == [dive |-> NULL, calls |-> <<>>, ret |-> [from |-> "none", n |-> 0]]
NoGas == [called |-> FALSE, o2 |-> 0, he |-> 0, o2low |-> 0]

NoSac == [called |-> FALSE, defined |-> TRUE, ret |-> 0, airuse |-> 0, duration |-> 0]

\* the parts of the state a specification leaves alone
DecoIdle == deco_table = <<>> /\ deco = NoDeco
GasIdle == cylinder = <<>> /\ gas = NoGas
SacIdle == sac_dive = <<>> /\ sac = NoSac
SelIdle ==
    /\ selected = [d \in Dives |-> FALSE]
    /\ amount_selected = 0
    /\ selected_dive = 0

\* no trip exists yet
NoTrips ==
    /\ divetrip = [d \in Dives |-> NULL]
    /\ next = [d \in Dives |-> NULL]
    /\ pprev = [d \in Dives |-> NoSlot]
    /\ tripflag = [d \in Dives |-> "TF_NONE"]
    /\ trip = [t \in TripIds |-> ZeroTrip]
    /\ live = {}
    /\ dive_trip_list = <<>>
    /\ autogroup = FALSE
    /\ cur_trip = NULL
    /\ err = "ok"
    /\ loads = 0
    /\ last = NoOp

\* the dives are in the store in time order; no trip exists yet
InitRest ==
    /\ dive_table \in SortedTables(Dives, when)
    /\ NoTrips
    /\ DecoIdle /\ GasIdle /\ SacIdle /\ SelIdle

Init ==
    /\ when \in [Dives -> Times]
    /\ InitRest

\* a store read from a log that spans one more time unit
InitAuto ==
    /\ when \in [Dives -> 1..(MaxWhen + 1)]
    /\ InitRest

\* dive->next and dive->pprev of a dive outside any trip are never read again
\* (remove_dive_from_trip returns before it reads them, add_dive_to_trip
\* overwrites both), so the stored state keeps NULL for them
DeadNext(s) == [d \in Dives |-> IF s.divetrip[d] = NULL THEN NULL ELSE s.next[d]]
DeadPprev(s) == [d \in Dives |-> IF s.divetrip[d] = NULL THEN NoSlot ELSE s.pprev[d]]

\* Trip objects are named by position: the trips of dive_trip_list in list
\* order, then the trip under construction, then trips that are referenced by
\* their dives only.  An address carries no other meaning, so two heaps that
\* differ in the addresses alone are the same state.
Unlisted(s) == s.live \ Range(s.list)

UnlistedKey(s, ct) ==
    [t \in Unlisted(s) |->
        IF t = ct \/ MembersOf(s, t) = {} THEN 0 ELSE SetMin(MembersOf(s, t))]

TripOrder(s, ct) ==
    s.list \o (CHOOSE q \in SortedSeqs(Unlisted(s), UnlistedKey(s, ct), "ASC") : TRUE)

NameOf(order, t) ==
    IF \E i \in 1..Len(order) : order[i] = t
    THEN CHOOSE i \in 1..Len(order) : order[i] = t
    ELSE NULL

\* the heap s becomes the next state, its trips renamed as order says
CommitHeap(s, order, tbl, ag, ct, l) ==
    /\ when' = s.when
    /\ divetrip' = [d \in Dives |-> NameOf(order, s.divetrip[d])]
    /\ next' = DeadNext(s)
    /\ pprev' = [d \in Dives |->
                   IF DeadPprev(s)[d][1] = "T"
                   THEN <<"T", NameOf(order, DeadPprev(s)[d][2])>> ELSE DeadPprev(s)[d]]
    /\ tripflag' = s.tripflag
    /\ trip' = [i \in TripIds |-> IF i <= Len(order) THEN s.trip[order[i]] ELSE ZeroTrip]
    /\ live' = 1..Len(order)
    /\ dive_trip_list' = [i \in 1..Len(s.list) |-> i]
    /\ err' = s.err
    /\ dive_table' = tbl
    /\ autogroup' = ag
    /\ cur_trip' = NameOf(order, ct)
    /\ loads' = IF l.op = "new_draft" THEN loads + 1 ELSE loads
    /\ last' = [l EXCEPT !.t = NameOf(order, @)]
    /\ UNCHANGED <<decovars, gasvars, sacvars>>

\* the same for a handler that leaves the selection alone
CommitAs(s, order, tbl, ag, ct, l) ==
    /\ CommitHeap(s, order, tbl, ag, ct, l)
    /\ UNCHANGED selvars

\* the trips are renamed in the order TripOrder gives
Commit(s, tbl, ag, ct, l) == CommitAs(s, TripOrder(s, ct), tbl, ag, ct, l)

\* the user interface is idle: the process is alive and no file is being loaded
Idle == err = "ok" /\ cur_trip = NULL

\* "Add to trip above": a top-level dive row right below a trip row, not selected.
\* The dive is added to the trip of the last child of that row; the moved row
\* is appended to the children and the trip date is refreshed from the rows.
MergeDiveIntoTripAbove(d, t) ==
    /\ Idle
    /\ divetrip[d] = NULL
    /\ t \in RowTrips(Heap, dive_table)
    /\ ~ \E k \in TopKeys(Heap, dive_table) :
           Min(when[d], trip[t].when) < k /\ k < when[d] + trip[t].when - Min(when[d], trip[t].when)
    /\ \E order \in SortOrders :
       \E kids \in SortedSeqs(MembersOf(Heap, t), when, order) :
         /\ IF order = "ASC" THEN trip[t].when <= when[d] ELSE trip[t].when >= when[d]
         /\ LET flagged(s1) ==
                    IF s1.err = "ok" THEN [s1 EXCEPT !.tripflag[d] = "IN_TRIP"] ELSE s1
                stamped(s2) ==
                    update_trip_timestamp(s2, kids \o <<d>>, s2.divetrip[d], trip[t].when).s
            IN Commit(stamped(flagged(add_dive_to_trip(Heap, d, t))),
                      dive_table, autogroup, cur_trip, [NoOp EXCEPT !.op = "add"])

\* remove_from_trip_cb on a dive that is not part of a selection; for a dive
\* without trip remove_dive_from_trip returns at once and the list is rebuilt
RemoveFromTrip(d) ==
    /\ Idle
    /\ LET t == divetrip[d]
           idx == IF t = NULL THEN 0 ELSE 0 - trip[t].index
           refresh(s1) ==
               Commit(dive_list_update_dives(s1, dive_table, autogroup),
                      dive_table, autogroup, cur_trip,
                      [op |-> "remove", d |-> NULL, t |-> NULL,
                       pre |-> [notrip |-> t = NULL,
                                sole |-> t # NULL /\ trip[t].nrdives = 1,
                                shown |-> idx < 0,
                                lookup |-> find_trip_by_idx(s1, idx),
                                gone |-> t \notin Range(s1.list),
                                unchanged |-> s1 = Heap]])
       IN refresh(remove_dive_from_trip(Heap, d))

\* edit_dive_when_cb with a new time accepted in the dialog
EditDiveWhen(d, w) ==
    /\ Idle
    /\ when[d] # w
    /\ LET t == divetrip[d]
           refresh(s1) ==
               \E tbl \in SortedTables(Dives, s1.when) :
                 Commit(dive_list_update_dives(s1, tbl, autogroup), tbl, autogroup,
                        cur_trip,
                        [op |-> "edit", d |-> NULL, t |-> NULL,
                         pre |-> [earliest |-> /\ t # NULL /\ trip[t].nrdives >= 2
                                               /\ trip[t].when = when[d] /\ w > when[d]
                                               /\ find_matching_trip(Heap, w) = t,
                                  held |-> \A u \in Range(dive_trip_list) :
                                             /\ MembersOf(Heap, u) # {}
                                             /\ trip[u].when =
                                                  SetMin({when[e] : e \in MembersOf(Heap, u)})]])
       IN refresh(edit_dive_when(Heap, d, w))

\* "Merge trip with trip above/below": two neighbouring trip rows, the dives of
\* row a go to row b.  The step is a round trip when it follows a split and
\* takes the dives the split moved out back to the dives the split left.
MergeTrips(a, b) ==
    /\ Idle
    /\ a \in RowTrips(Heap, dive_table) /\ b \in RowTrips(Heap, dive_table)
    /\ AdjacentRows(Heap, dive_table, a, b)
    /\ \E uaf \in {"null", "garbage"} :
         LET refresh(s1) ==
                 IF s1.err = "ok"
                 THEN dive_list_update_dives(s1, dive_table, autogroup) ELSE s1
             round == /\ last.op = "split"
                      /\ MembersOf(Heap, a) = last.pre.moved
                      /\ MembersOf(Heap, b) = last.pre.members \ last.pre.moved
             \* the loop ended on a test of thistrip->dives made after
             \* delete_trip had freed thistrip
             freed(s1) == /\ find_matching_trip(Heap, trip[a].when) # NULL
                          /\ find_matching_trip(Heap, trip[a].when)
                                # find_matching_trip(Heap, trip[b].when)
                          /\ find_matching_trip(Heap, trip[a].when) \notin s1.live
             done(s1) ==
                 Commit(refresh(s1), dive_table, autogroup, cur_trip,
                        [op |-> "merge", d |-> NULL, t |-> NULL,
                         pre |-> [src |-> MembersOf(Heap, a),
                                  dst |-> MembersOf(Heap, b),
                                  uaf |-> uaf,
                                  round |-> round,
                                  was |-> IF round THEN last.pre.when ELSE 0,
                                  freed |-> freed(s1)]])
         IN done(merge_trips_cb(Heap, trip[a].when, trip[b].when, uaf))

\* "Create new trip above" on a child row that is not the first child
InsertTripBefore(t) ==
    /\ Idle
    /\ t \in RowTrips(Heap, dive_table)
    /\ \E order \in SortOrders :
       \E kids \in SortedSeqs(MembersOf(Heap, t), when, order) :
       \E k \in 2..Len(kids) :
         Commit(insert_trip_before(Heap, kids, k, trip[t].when),
                dive_table, autogroup, cur_trip,
                [op |-> "split", d |-> NULL, t |-> NULL,
                 pre |-> [members |-> Range(kids),
                          moved |-> {kids[i] : i \in k..Len(kids)},
                          when |-> trip[t].when]])

\* the first trip of the registry that starts at w, NULL when there is none
TripStartingAt(s, w) ==
    IF \E i \in 1..Len(s.list) : s.trip[s.list[i]].when = w
    THEN s.list[SetMin({i \in 1..Len(s.list) : s.trip[s.list[i]].when = w})]
    ELSE NULL

\* what a call of insert_trip found: whether a trip of the registry starts at w,
\* and then the length of the registry, the texts of that trip and of the draft
InsertTripCase(s, w, dloc, dnotes, members, ret) ==
    IF TripStartingAt(s, w) = NULL
    THEN [collided |-> FALSE, same |-> FALSE, len |-> 0, members |-> {},
          eloc |-> NULL, enotes |-> NULL, dloc |-> NULL, dnotes |-> NULL]
    ELSE [collided |-> TRUE, same |-> TripStartingAt(s, w) = ret,
          len |-> Len(s.list), members |-> members,
          eloc |-> s.trip[TripStartingAt(s, w)].location,
          enotes |-> s.trip[TripStartingAt(s, w)].notes,
          dloc |-> dloc, dnotes |-> dnotes]

\* "Create new trip above" on a top-level dive that is not selected
TurnDiveIntoTrip(d) ==
    /\ Idle
    /\ divetrip[d] = NULL
    /\ LET done(r) ==
               Commit(r.s, dive_table, autogroup, cur_trip,
                      [op |-> "create", d |-> NULL, t |-> r.ret,
                       pre |-> InsertTripCase(Heap, when[d], DiveLocation(d), NULL,
                                              {}, r.ret)])
       IN done(create_and_hookup_trip_from_dive(Heap, d))

\* a caller of insert_trip starts a trip of its own (location, notes and date as read)
NewDraft(w, loc, notes) ==
    /\ Idle
    /\ loads < MaxLoads
    /\ NewTrip(Heap) # NULL
    /\ Commit([Heap EXCEPT !.live = @ \cup {NewTrip(Heap)},
                           !.trip[NewTrip(Heap)] = [ZeroTrip EXCEPT !.when = w,
                                                                    !.location = loc,
                                                                    !.notes = notes]],
              dive_table, autogroup, NewTrip(Heap),
              [NoOp EXCEPT !.op = "new_draft"])

\* ... adds a dive to it
DraftAddDive(d) ==
    /\ err = "ok" /\ cur_trip # NULL
    /\ divetrip[d] = NULL
    /\ Commit(add_dive_to_trip(Heap, d, cur_trip), dive_table, autogroup, cur_trip,
              [NoOp EXCEPT !.op = "draft"])

\* a caller of add_dive_to_trip hands it any dive and any trip, listed or not
AddDiveToTrip(d, t) ==
    /\ err = "ok"
    /\ t \in live
    /\ LET done(s1) ==
               Commit(s1, dive_table, autogroup,
                      IF cur_trip \in s1.live THEN cur_trip ELSE NULL,
                      [op |-> "add_to", d |-> d, t |-> t,
                       pre |-> [member |-> divetrip[d] = t,
                                had |-> divetrip[d] # NULL,
                                zero |-> trip[t].when = 0,
                                same |-> [s1 EXCEPT !.err = "ok"] = Heap]])
       IN done(add_dive_to_trip(Heap, d, t))

\* ... and hands it to insert_trip, once the trip holds a dive
InsertTrip ==
    /\ err = "ok" /\ cur_trip # NULL
    /\ trip[cur_trip].dives # NULL
    /\ LET done(r) ==
               Commit(Leak(r.s, cur_trip), dive_table, autogroup, NULL,
                      [op |-> "insert_trip", d |-> NULL, t |-> r.ret,
                       pre |-> InsertTripCase(Heap, trip[cur_trip].when,
                                              trip[cur_trip].location,
                                              trip[cur_trip].notes,
                                              MembersOf(Heap, cur_trip), r.ret)])
       IN done(insert_trip(Heap, cur_trip))

\* the autogroup preference is switched; the list is rebuilt
ToggleAutogroup ==
    /\ Idle
    /\ Commit(dive_list_update_dives(
                 IF autogroup THEN remove_autogen_trips(Heap, dive_table) ELSE Heap,
                 dive_table, ~autogroup),
              dive_table, ~autogroup, cur_trip,
              [op |-> "autogroup", d |-> NULL, t |-> NULL,
               pre |-> [fresh |-> /\ dive_trip_list = <<>>
                                  /\ \A d \in Dives : /\ divetrip[d] = NULL
                                                      /\ tripflag[d] = "TF_NONE",
                        on |-> ~autogroup,
                        autogen |-> {MembersOf(Heap, t) :
                                        t \in {u \in Range(dive_trip_list) :
                                                  trip[u].autogen # 0}}]])

\* the trip operations of the dive list
Next ==
    \/ \E d \in Dives, t \in TripIds : MergeDiveIntoTripAbove(d, t)
    \/ \E d \in Dives : RemoveFromTrip(d)
    \/ \E a, b \in TripIds : MergeTrips(a, b)
    \/ \E t \in TripIds : InsertTripBefore(t)
    \/ \E d \in Dives : TurnDiveIntoTrip(d)

Spec == Init /\ [][Next]_vars

\* trips made from single dives and grown from the rows below them, with the
\* edit of a dive's date
NextEdit ==
    \/ \E d \in Dives : TurnDiveIntoTrip(d)
    \/ \E d \in Dives, t \in TripIds : MergeDiveIntoTripAbove(d, t)
    \/ \E d \in Dives, w \in Times : EditDiveWhen(d, w)

SpecEdit == Init /\ [][NextEdit]_vars

\* trips handed to insert_trip by a caller, next to trips made from single dives
NextLoad ==
    \/ \E w \in 0..MaxWhen, loc \in DraftTexts, notes \in DraftTexts : NewDraft(w, loc, notes)
    \/ \E d \in Dives : DraftAddDive(d)
    \/ InsertTrip
    \/ \E d \in Dives : TurnDiveIntoTrip(d)

SpecLoad == Init /\ [][NextLoad]_vars

\* add_dive_to_trip called from outside, on listed trips and on a trip not yet listed
NextAdd ==
    \/ \E w \in 0..MaxWhen : NewDraft(w, NULL, NULL)
    \/ \E d \in Dives, t \in TripIds : AddDiveToTrip(d, t)
    \/ \E d \in Dives : TurnDiveIntoTrip(d)

SpecAdd == Init /\ [][NextAdd]_vars

\* ---- the decompression replay over a store of its own ----
\* the trips play no part in it
TripsIdle ==
    /\ when = [d \in Dives |-> 1]
    /\ dive_table = [i \in 1..NDives |-> i]
    /\ NoTrips

\* trips the dives of the store can belong to
DecoTrips == {NULL, 1, 2}

\* the store is in time order; every dive has two samples, at its start and at
\* its end, and a surface pressure of its own
DecoTables ==
    {[i \in 1..NHistory |->
         [when |-> w[i], duration |-> du[i], divetrip |-> tr[i],
          surface |-> 1000 + i, sample |-> <<0, du[i]>>]] :
       w \in {x \in [1..NHistory -> 1..MaxDecoWhen] :
                 \A i \in 1..(NHistory - 1) : x[i] <= x[i + 1]},
       du \in [1..NHistory -> 0..MaxDuration],
       tr \in [1..NHistory -> DecoTrips]}

InitDeco ==
    /\ TripsIdle
    /\ deco_table \in DecoTables /\ deco = NoDeco
    /\ GasIdle /\ SacIdle /\ SelIdle

\* values an uninitialized double can hold, none of them the number of a call:
\* whatever the stack held (-1), or the result an earlier invocation left (-2)
Indeterminate == {-1, -2}

\* init_decompression(dive), dive NULL or a dive of the store
InitDecompression(dive) ==
    /\ deco_table # <<>>
    /\ \E junk \in Indeterminate :
         deco' = init_decompression(deco_table, dive, junk)
    /\ UNCHANGED <<tripvars, deco_table, gasvars, sacvars, selvars>>

NextDeco == \E dive \in 0..NHistory : InitDecompression(dive)

SpecDeco == InitDeco /\ [][NextDeco]_vars

\* ---- the gas of one dive ----
\* permille of oxygen and of helium in a cylinder: unset, hypoxic, 21%, nitrox
O2Permille == {0, 180, 210, 320}
HePermille == {0, 450}
Cylinders == [o2 : O2Permille, he : HePermille, size : {0, 1}]

InitGas ==
    /\ TripsIdle
    /\ DecoIdle /\ SacIdle /\ SelIdle
    /\ cylinder \in [1..MAX_CYLINDERS -> Cylinders] /\ gas = NoGas

\* get_dive_gas(dive, &o2, &he, &o2low)
GetDiveGas ==
    /\ cylinder # <<>>
    /\ gas' = [called |-> TRUE, o2 |-> get_dive_gas(cylinder).o2,
               he |-> get_dive_gas(cylinder).he,
               o2low |-> get_dive_gas(cylinder).o2low]
    /\ UNCHANGED <<tripvars, decovars, cylinder, sacvars, selvars>>

NextGas == GetDiveGas

SpecGas == InitGas /\ [][NextGas]_vars

\* ---- the air consumption of one dive ----
\* a cylinder: its size, the pressures entered by hand (0: none) and those
\* taken from the samples
SacCylinders ==
    [size : {0, 1}, start : {0, 2}, end : {0, 3}, sample_start : {3},
     sample_end : {1}]

\* the samples are taken at seconds 0, 1, 3, 7, ...: no two spans are equal
RECURSIVE SampleTime(_)
SampleTime(i) == IF i = 1 THEN 0 ELSE 2 * SampleTime(i - 1) + 1

\* depths in mm: at the surface, and at 2 m
SampleLists ==
    UNION {{[i \in 1..n |-> [time |-> SampleTime(i), depth |-> dp[i]]] :
               dp \in [1..n -> {0, 2000}]} : n \in 0..MaxSamples}

SacDives ==
    [cylinder : [1..MAX_CYLINDERS -> SacCylinders],
     duration : {0, 2, 9},
     sample : SampleLists,
     meandepth : {0, 10000}]

InitSac ==
    /\ TripsIdle
    /\ DecoIdle /\ GasIdle /\ SelIdle
    /\ sac_dive \in SacDives /\ sac = NoSac

\* dive->sac = calculate_sac(dive)
CalculateSac ==
    /\ sac_dive # <<>>
    /\ \E junk \in Unrepresentable : sac' = calculate_sac(sac_dive, junk)
    /\ UNCHANGED <<tripvars, decovars, gasvars, sac_dive, selvars>>

NextSac == CalculateSac

SpecSac == InitSac /\ [][NextSac]_vars

\* ---- the selection and the single-dive operations of the store ----

\* the parts of the heap the selection handlers leave alone
heapvars == <<when, divetrip, next, pprev, tripflag, trip, live,
              dive_trip_list, autogroup, cur_trip, err, loads>>

\* the store holds some of the dive objects, in time order, none selected; a
\* dive object that is not in the store yet carries any flag
InitSel ==
    /\ when = [d \in Dives |-> Min(d, MaxWhen)]
    /\ \E S \in SUBSET Dives : dive_table \in SortedTables(S, when)
    /\ NoTrips
    /\ DecoIdle /\ GasIdle /\ SacIdle
    /\ selected \in {f \in [Dives -> BOOLEAN] : \A d \in Range(dive_table) : ~ f[d]}
    /\ amount_selected = 0
    /\ selected_dive = 0

SetSelection(sel) ==
    /\ selected' = sel.selected
    /\ amount_selected' = sel.amount
    /\ selected_dive' = sel.cur

\* a row of the list becomes selected
SelectDive(idx) ==
    /\ Idle
    /\ SetSelection(select_dive(dive_table, Selection, idx))
    /\ last' = [op |-> "select", d |-> dive_at(dive_table, idx), t |-> NULL,
                pre |-> [idx |-> idx]]
    /\ UNCHANGED <<dive_table, heapvars, decovars, gasvars, sacvars>>

\* a row of the list stops being selected
DeselectDive(idx) ==
    /\ Idle
    /\ SetSelection(deselect_dive(dive_table, Selection, idx))
    /\ last' = [op |-> "deselect", d |-> dive_at(dive_table, idx), t |-> NULL,
                pre |-> [idx |-> idx]]
    /\ UNCHANGED <<dive_table, heapvars, decovars, gasvars, sacvars>>

\* add_single_dive(idx, dive) for a dive that is not in the store, at a
\* position of the store or right after its last dive
AddSingleDive(idx, dive) ==
    /\ Idle
    /\ dive \notin Range(dive_table)
    /\ idx \in 0..Len(dive_table)
    /\ LET r == add_single_dive(dive_table, Selection, idx, dive)
       IN /\ dive_table' = r.tbl
          /\ SetSelection(r.sel)
    /\ last' = [op |-> "add_single", d |-> dive, t |-> NULL,
                pre |-> [table |-> dive_table, idx |-> idx]]
    /\ UNCHANGED <<heapvars, decovars, gasvars, sacvars>>

\* delete_single_dive(idx)
DeleteSingleDive(idx) ==
    /\ Idle
    /\ LET done(r) ==
               /\ CommitHeap(r.s, TripOrder(r.s, cur_trip), r.tbl, autogroup, cur_trip,
                             [op |-> "delete_single", d |-> dive_at(dive_table, idx),
                              t |-> NULL,
                              pre |-> [table |-> dive_table, idx |-> idx]])
               /\ SetSelection(r.sel)
       IN done(delete_single_dive(Heap, dive_table, Selection, idx))

\* show_and_select_dive(dive), for a dive of the store or any other dive
ShowAndSelectDive(dive) ==
    /\ Idle
    /\ SetSelection(show_and_select_dive(dive_table, Selection, dive))
    /\ last' = [op |-> "show", d |-> dive, t |-> NULL,
                pre |-> [idx |-> divenr_of(dive_table, dive)]]
    /\ UNCHANGED <<dive_table, heapvars, decovars, gasvars, sacvars>>

NextSel ==
    \/ \E idx \in (0 - 1)..NDives : SelectDive(idx)
    \/ \E idx \in (0 - 1)..NDives : DeselectDive(idx)
    \/ \E idx \in 0..NDives, dive \in Dives : AddSingleDive(idx, dive)
    \/ \E idx \in (0 - 1)..NDives : DeleteSingleDive(idx)
    \/ \E dive \in Dives : ShowAndSelectDive(dive)
    \/ \E d \in Range(dive_table) : TurnDiveIntoTrip(d)

SpecSel == InitSel /\ [][NextSel]_vars

\* ---- the rows of the list: their order and the lookup of a trip row ----

\* the sort callback is called for two rows that hang below the same parent
DiveNrSort(a, b) ==
    /\ Idle
    /\ a # b
    /\ a.parent = b.parent
    /\ last' = [op |-> "sort", d |-> NULL, t |-> NULL,
                pre |-> [a |-> a, b |-> b,
                         ret |-> dive_nr_sort(Heap, dive_table, a, b)]]
    /\ UNCHANGED <<dive_table, heapvars, decovars, gasvars, sacvars, selvars>>

\* a callback looks up the trip of a row
FindTripByIdx(idx) ==
    /\ Idle
    /\ last' = [op |-> "find_idx", d |-> NULL, t |-> find_trip_by_idx(Heap, idx),
                pre |-> [idx |-> idx]]
    /\ UNCHANGED <<dive_table, heapvars, decovars, gasvars, sacvars, selvars>>

\* a handler asks for the trip a time falls into
FindMatchingTrip(w) ==
    /\ Idle
    /\ last' = [op |-> "find_when", d |-> NULL, t |-> find_matching_trip(Heap, w),
                pre |-> [when |-> w]]
    /\ UNCHANGED <<dive_table, heapvars, decovars, gasvars, sacvars, selvars>>

NextRows ==
    \/ \E d \in Dives : TurnDiveIntoTrip(d)
    \/ \E d \in Dives, t \in TripIds : MergeDiveIntoTripAbove(d, t)
    \/ \E d \in Dives : RemoveFromTrip(d)
    \/ \E a, b \in Rows(Heap, dive_table) : DiveNrSort(a, b)
    \/ \E idx \in (0 - MaxTrips)..1 : FindTripByIdx(idx)
    \/ \E w \in 0..MaxWhen : FindMatchingTrip(w)

SpecRows == Init /\ [][NextRows]_vars

\* ---- automatic grouping next to trips made by hand ----

\* dive_list_update_dives called by a handler outside divelist.c (after an
\* import or a change of the preferences): the list is rebuilt
DiveListUpdateDives ==
    /\ Idle
    /\ Commit(dive_list_update_dives(Heap, dive_table, autogroup),
              dive_table, autogroup, cur_trip,
              [op |-> "update", d |-> NULL, t |-> NULL,
               pre |-> [on |-> autogroup,
                        twice |-> last.op \in {"autogroup", "update"}
                                  /\ last.pre.on]])

NextGroup ==
    \/ \E d \in Dives : TurnDiveIntoTrip(d)
    \/ \E d \in Dives : RemoveFromTrip(d)
    \/ ToggleAutogroup
    \/ DiveListUpdateDives

SpecGroup == Init /\ [][NextGroup]_vars

\* automatic grouping, switched on and off, around edits and removals
NextAuto ==
    \/ ToggleAutogroup
    \/ \E d \in Dives, w \in Times : EditDiveWhen(d, w)
    \/ \E d \in Dives : RemoveFromTrip(d)

SpecAuto == InitAuto /\ [][NextAuto]_vars

\* no loop runs out of the steps it is given and the pool of trip objects is
\* never exhausted
NoModelLimit == err \notin {"loop", "nomem"}


\* ======================= properties =======================

Listed == Range(dive_trip_list)

MinWhenOf(S) == SetMin({when[d] : d \in S})

\* C1: after every completed operation of the trip operations (add, remove,
\* merge, split), every trip of dive_trip_list has at least one member dive and
\* its start time is the minimum `when` of its members.
C1_StartTimeIsMinOfMembers ==
    err = "ok" =>
        \A t \in Listed :
            /\ MembersOf(Heap, t) # {}
            /\ trip[t].when = MinWhenOf(MembersOf(Heap, t))

\* C2: after edit_dive_when_cb has changed a dive's date, every trip still
\* starts at the minimum date of its members (the trips did so before the edit).
C2_EditKeepsStartTime ==
    (err = "ok" /\ last.op = "edit" /\ last.pre.held) =>
        \A t \in Listed :
            MembersOf(Heap, t) # {} => trip[t].when = MinWhenOf(MembersOf(Heap, t))

\* C3: no two trips of dive_trip_list have the same start time.
C3_DistinctStartTimes ==
    err = "ok" =>
        \A i, j \in 1..Len(dive_trip_list) :
            i # j => trip[dive_trip_list[i]].when # trip[dive_trip_list[j]].when

\* C4: dive_trip_list is in ascending order of trip start time.
C4_ListAscending ==
    err = "ok" =>
        \A i, j \in 1..Len(dive_trip_list) :
            i < j => trip[dive_trip_list[i]].when <= trip[dive_trip_list[j]].when

\* C5: for every trip, nrdives is the length of the list reachable from
\* trip->dives, which holds exactly the dives whose divetrip is the trip; no
\* trip of dive_trip_list has a count of zero.
C5_CountMatchesMembers ==
    err = "ok" =>
        /\ \A t \in live :
              /\ trip[t].nrdives = Len(ChainOf(Heap, t))
              /\ Range(ChainOf(Heap, t)) = MembersOf(Heap, t)
              /\ trip[t].nrdives = Cardinality(MembersOf(Heap, t))
        /\ \A t \in Listed : trip[t].nrdives > 0

\* a removal has left a trip with one dive of the two it had
C5_Witness ==
    /\ err = "ok" /\ last.op = "remove" /\ ~last.pre.sole /\ ~last.pre.notrip
    /\ \E t \in Listed : trip[t].nrdives = 1

\* C6: each dive is in the member list of at most one trip, and that trip is
\* the dive's divetrip.
C6_AtMostOneTrip ==
    err = "ok" =>
        \A d \in Dives : \A t \in live :
            (\E i \in 1..Len(ChainOf(Heap, t)) : ChainOf(Heap, t)[i] = d) <=> divetrip[d] = t

\* a merge has moved the dives of one trip into another
C6_Witness ==
    /\ err = "ok" /\ last.op = "merge"
    /\ \E t \in Listed : trip[t].nrdives >= 2

\* C7: insert_trip with a draft that starts when a trip of dive_trip_list starts
\* does not make the list longer; the trip it returns has kept its own location
\* and notes where set and has the draft's where it had none.
C7_CollisionKeepsListLength ==
    (err = "ok" /\ last.op \in {"create", "insert_trip"} /\ last.pre.collided) =>
        /\ Len(dive_trip_list) <= last.pre.len
        /\ last.t # NULL
        /\ trip[last.t].location =
              (IF last.pre.eloc # NULL THEN last.pre.eloc ELSE last.pre.dloc)
        /\ trip[last.t].notes =
              (IF last.pre.enotes # NULL THEN last.pre.enotes ELSE last.pre.dnotes)

\* C8: in the collision case every dive of the draft ends up in the existing
\* trip, which is what the caller's pointer is left at.
C8_CollisionMovesAllDives ==
    (err = "ok" /\ last.op = "insert_trip" /\ last.pre.collided) =>
        /\ last.pre.same
        /\ \A d \in last.pre.members : divetrip[d] = last.t

\* C9: remove_dive_from_trip on the only member of a trip takes the trip out of
\* dive_trip_list and find_trip_by_idx with the trip's row identifier then
\* returns NULL; on a dive without trip it changes nothing.
C9_SoleMemberRemovalDeletesTrip ==
    (err = "ok" /\ last.op = "remove") =>
        /\ last.pre.sole => (last.pre.gone /\ last.pre.lookup = NULL)
        /\ last.pre.notrip => last.pre.unchanged

\* the only dive of a trip that had a row was removed while another trip stayed
C9_Witness ==
    /\ err = "ok" /\ last.op = "remove" /\ last.pre.sole /\ last.pre.shown
    /\ Len(dive_trip_list) >= 1

\* C11: a split at a child row that is not the first, followed at once by the
\* merge of the new trip into the trip it was split from, leaves all the dives
\* of the trip in one trip of dive_trip_list that starts when the trip started
\* before the split.
C11_SplitMergeRoundTrip ==
    (last.op = "merge" /\ last.pre.round) =>
        /\ err = "ok"
        /\ \E t \in Listed :
              /\ MembersOf(Heap, t) = last.pre.src \cup last.pre.dst
              /\ trip[t].when = last.pre.was

\* C12: the merge of one trip row into another ends; afterwards the source is
\* not in dive_trip_list, every dive of the source is in the target, the
\* target's count is the sum of both counts and its start time is the minimum
\* over its dives.
C12_MergeMovesAllDives ==
    (last.op = "merge" /\ last.pre.src # {} /\ last.pre.dst # {}) =>
        /\ err = "ok"
        /\ \E t \in Listed :
              /\ MembersOf(Heap, t) = last.pre.src \cup last.pre.dst
              /\ trip[t].nrdives =
                    Cardinality(last.pre.src) + Cardinality(last.pre.dst)
              /\ trip[t].when = MinWhenOf(MembersOf(Heap, t))
        /\ \A t \in Listed : MembersOf(Heap, t) # last.pre.src

\* C13: add_dive_to_trip on a dive that is not a member of the trip, with
\* trip->when zero, fails its assertion and changes nothing: the dive keeps
\* its trip, no member list and no count is modified.
C13_AssertBeforeAnyChange ==
    (last.op = "add_to" /\ last.pre.zero /\ ~last.pre.member) =>
        err = "assert" /\ last.pre.same

\* the dive was in another trip when the assertion failed
C13_Witness ==
    /\ last.op = "add_to" /\ last.pre.zero /\ ~last.pre.member /\ last.pre.had
    /\ err = "assert"
    /\ divetrip[last.d] \notin {NULL, last.t}

\* C10: autogroup_dives over a time-ordered store in which no dive has a trip
\* and every dive needs one puts two consecutive dives in the same trip exactly
\* when the later starts less than TRIP_THRESHOLD after the earlier, flags every
\* trip autogen, and so makes one trip more than there are gaps of at least
\* TRIP_THRESHOLD ([T, T+1, T+3] gives {T, T+1} and {T+3}).
C10_AutogroupByGap ==
    (err = "ok" /\ last.op = "autogroup" /\ last.pre.on /\ last.pre.fresh) =>
        /\ \A i \in 1..(NDives - 1) :
              (divetrip[dive_table[i]] = divetrip[dive_table[i + 1]])
              <=> (when[dive_table[i + 1]] < when[dive_table[i]] + TRIP_THRESHOLD)
        /\ \A d \in Dives : divetrip[d] \in Listed
        /\ \A t \in Listed : trip[t].autogen = 1
        /\ Len(dive_trip_list) =
              1 + Cardinality({i \in 1..(NDives - 1) :
                     when[dive_table[i + 1]] >= when[dive_table[i]] + TRIP_THRESHOLD})

\* the first two dives are one unit apart, the next follows after a longer gap
C10_Witness ==
    /\ err = "ok" /\ last.op = "autogroup" /\ last.pre.on /\ last.pre.fresh
    /\ when[dive_table[2]] = when[dive_table[1]] + 1
    /\ when[dive_table[3]] >= when[dive_table[2]] + TRIP_THRESHOLD
    /\ divetrip[dive_table[1]] = divetrip[dive_table[2]]
    /\ divetrip[dive_table[3]] # divetrip[dive_table[2]]

\* ---- init_decompression: the dives a call should feed, and those it fed ----
\* init_decompression has run on a dive of the store
DecoCalled == deco.ret.from \in {"add_segment", "uninitialized"}

DecoEnd(p) == deco_table[p].when + deco_table[p].duration

\* the prior dives that the trip of the target does not exclude
Prior ==
    {p \in 1..(deco.dive - 1) :
        \/ deco_table[deco.dive].divetrip = NULL
        \/ deco_table[p].divetrip = deco_table[deco.dive].divetrip}

\* the dives handed to add_dive_to_deco
ReplayedDives ==
    {deco.calls[k].dive :
        k \in {j \in DOMAIN deco.calls : deco.calls[j].kind = "add_dive_to_deco"}}

\* the dive of Prior that follows p, the target after the last one
NextOf(p) == SetMin({q \in Prior \cup {deco.dive} : q > p})

\* p and every later prior dive ended no more than 48 hours before the dive
\* after it started
Window ==
    {p \in Prior :
        \A q \in Prior :
            q >= p => DecoEnd(q) + FORTY_EIGHT_HOURS >= deco_table[NextOf(q)].when}

\* p and every later prior dive ended no more than 48 hours before the target
\* started
WindowOfTarget ==
    {p \in Prior :
        \A q \in Prior :
            q >= p => DecoEnd(q) + FORTY_EIGHT_HOURS >= deco_table[deco.dive].when}

\* C14: for two replayed dives a and b with no replayed dive between them and
\* a gap between the end of a and the start of b, the surface segment of that
\* gap is fed after every sample segment of a and before every sample
\* segment of b.
C14_SurfaceBetweenDives ==
    DecoCalled =>
        \A a \in ReplayedDives, b \in ReplayedDives :
            (/\ a < b
             /\ \A c \in ReplayedDives : ~(a < c /\ c < b)
             /\ deco_table[b].when > DecoEnd(a))
            => \E k \in DOMAIN deco.calls :
                  /\ deco.calls[k].kind = "surface"
                  /\ deco.calls[k].start = DecoEnd(a)
                  /\ deco.calls[k].time = deco_table[b].when - DecoEnd(a)
                  /\ \A j \in DOMAIN deco.calls :
                        deco.calls[j].kind = "sample" =>
                            /\ deco.calls[j].dive = a => j < k
                            /\ deco.calls[j].dive = b => j > k

\* C15: every prior dive inside the window is replayed, the dive at position 0
\* of the store included when the window reaches it.
C15_ReplaysWindowToPositionZero ==
    DecoCalled => Window \subseteq ReplayedDives

C17_ClearDecoPressure ==
    DecoCalled =>
        /\ ReplayedDives # {} =>
              /\ \E k \in DOMAIN deco.calls : deco.calls[k].kind = "clear_deco"
              /\ \A k \in DOMAIN deco.calls :
                    deco.calls[k].kind = "clear_deco" =>
                        deco.calls[k].pressure = deco_table[SetMin(Window)].surface
        /\ Window = {} =>
              deco.calls = <<Call("clear_deco", deco.dive,
                                  deco_table[deco.dive].surface, 0, 0)>>

\* C18: for a non-null dive the value returned is the value that the last
\* surface-interval add_segment of the invocation returned.
C18_ReturnsLastSurfaceValue ==
    DecoCalled =>
        /\ deco.ret.from = "add_segment"
        /\ deco.ret.n \in DOMAIN deco.calls
        /\ deco.calls[deco.ret.n].kind = "surface"
        /\ \A j \in DOMAIN deco.calls :
              j > deco.ret.n => deco.calls[j].kind # "surface"

\* ---- get_dive_gas: the cylinders in use and the mixture that wins ----
NonEmpty == {i \in DOMAIN cylinder : ~cylinder_none(cylinder[i])}

\* the oxygen of cylinder i, 0 counted as air
OxygenOf(i) == IF cylinder[i].o2 = 0 THEN O2_IN_AIR ELSE cylinder[i].o2

\* no cylinder in use has more helium, or as much helium and more oxygen
Wins(i) ==
    \A j \in NonEmpty :
        \/ cylinder[j].he < cylinder[i].he
        \/ cylinder[j].he = cylinder[i].he /\ OxygenOf(j) <= OxygenOf(i)

MinOxygen == SetMin({OxygenOf(i) : i \in NonEmpty})

\* the winning mixture is air and no cylinder in use has less oxygen
ShownAsAir ==
    \E i \in NonEmpty :
        Wins(i) /\ cylinder[i].he = 0 /\ OxygenOf(i) = O2_IN_AIR
                /\ MinOxygen = O2_IN_AIR

Percent(n) == n * 10

\* C19 as stated: over the cylinders in use, get_dive_gas returns the mixture
\* with the most helium, the most oxygen among those of equal helium, and the
\* least oxygen of all.
C19_MostHeliumThenOxygen ==
    (gas.called /\ NonEmpty # {}) =>
        \E i \in NonEmpty :
            /\ Wins(i)
            /\ gas.o2 = OxygenOf(i) /\ gas.he = cylinder[i].he
            /\ gas.o2low = MinOxygen

\* C19: the same, except that a dive whose winning mixture is air and whose
\* least oxygen is that of air is reported as 0, 0, 0.
C19_MostHeliumUnlessAir ==
    (gas.called /\ NonEmpty # {}) =>
        IF ShownAsAir
        THEN gas.o2 = 0 /\ gas.he = 0 /\ gas.o2low = 0
        ELSE \E i \in NonEmpty :
                /\ Wins(i)
                /\ gas.o2 = OxygenOf(i) /\ gas.he = cylinder[i].he
                /\ gas.o2low = MinOxygen

\* the example: cylinders {21%, 0%} and {18%, 45%} give 18%, 45%, least 18%
C19_Witness ==
    /\ gas.called
    /\ \E i \in NonEmpty, j \in NonEmpty :
          /\ NonEmpty = {i, j}
          /\ cylinder[i].o2 = Percent(21) /\ cylinder[i].he = 0
          /\ cylinder[j].o2 = Percent(18) /\ cylinder[j].he = Percent(45)
    /\ gas.o2 = Percent(18) /\ gas.he = Percent(45) /\ gas.o2low = Percent(18)

\* C20: when every cylinder in use holds 21% oxygen and no helium,
\* get_dive_gas returns 0 for the oxygen, the helium and the least oxygen.
C20_AllAirIsZero ==
    (/\ gas.called
     /\ NonEmpty # {}
     /\ \A i \in NonEmpty : cylinder[i].o2 = Percent(21) /\ cylinder[i].he = 0)
    => gas.o2 = 0 /\ gas.he = 0 /\ gas.o2low = 0

\* two cylinders of 21% and one without any data
C20_Witness ==
    /\ gas.called
    /\ Cardinality(NonEmpty) = 2
    /\ \A i \in NonEmpty : cylinder[i].o2 = Percent(21) /\ cylinder[i].he = 0
    /\ gas.o2 = 0 /\ gas.he = 0 /\ gas.o2low = 0

\* C21: for a dive without any cylinder in use get_dive_gas returns what it
\* returns for an all-air dive: 0 for the oxygen, the helium and the least
\* oxygen, never a negative permille and never a least oxygen of 1000.
C21_NoCylinderIsAir ==
    (gas.called /\ NonEmpty = {}) =>
        gas.o2 = 0 /\ gas.he = 0 /\ gas.o2low = 0

\* C22: calculate_sac returns 0 whenever the air use summed over the cylinders
\* is zero, whatever the duration and the samples, and whenever the recorded
\* duration is zero.
C22_ZeroAirUseOrDuration ==
    (sac.called /\ (calculate_airuse(sac_dive) = 0 \/ sac_dive.duration = 0)) =>
        sac.defined /\ sac.ret = 0

\* cylinders that were breathed from and refilled cancel out: the sum is zero
\* although a cylinder was used, the duration is not zero and there are samples
C22_Witness ==
    /\ sac.called
    /\ calculate_airuse(sac_dive) = 0
    /\ \E i \in DOMAIN sac_dive.cylinder :
          /\ sac_dive.cylinder[i].size # 0
          /\ start_of(sac_dive.cylinder[i]) # end_of(sac_dive.cylinder[i])
    /\ sac_dive.duration # 0 /\ Len(sac_dive.sample) = MaxSamples
    /\ sac.defined /\ sac.ret = 0

\* ---- calculate_sac: the surface time inside a dive ----
Shallow(i) == sac_dive.sample[i].depth < SURFACE_MM

\* the maximal runs of shallow samples, as <<first, last>>
ShallowRuns ==
    {r \in (DOMAIN sac_dive.sample) \X (DOMAIN sac_dive.sample) :
        /\ r[1] <= r[2]
        /\ \A i \in r[1]..r[2] : Shallow(i)
        /\ r[1] = 1 \/ ~Shallow(r[1] - 1)
        /\ r[2] = Len(sac_dive.sample) \/ ~Shallow(r[2] + 1)}

\* those that hold neither the first nor the last sample
InnerRuns == {r \in ShallowRuns : r[1] > 1 /\ r[2] < Len(sac_dive.sample)}

RECURSIVE SpanSum(_)
SpanSum(runs) ==
    IF runs = {} THEN 0
    ELSE LET r == CHOOSE x \in runs : TRUE
         IN (sac_dive.sample[r[2]].time - sac_dive.sample[r[1]].time)
            + SpanSum(runs \ {r})

\* C29: the duration calculate_sac divides by is the recorded duration less
\* the time spans of the maximal shallow runs that hold neither the first nor
\* the last sample.
C29_InnerSurfaceTimeOnly ==
    (sac.called /\ calculate_airuse(sac_dive) # 0 /\ sac_dive.duration # 0) =>
        sac.duration = sac_dive.duration - SpanSum(InnerRuns)

\* ---- the store and the selection count ----
\* the dives of the store whose selected flag is set
SelectedInStore == {d \in Range(dive_table) : selected[d]}

\* the entries of q that are in S, in the order of q
Keep(q, S) ==
    LET Test(x) == x \in S
    IN SelectSeq(q, Test)

\* C23: after any sequence of select_dive, deselect_dive, add_single_dive,
\* delete_single_dive and show_and_select_dive, amount_selected equals the
\* number of dives in the store whose selected flag is set.
C23_CountMatchesSelected ==
    amount_selected = Cardinality(SelectedInStore)

\* C30: add_single_dive(idx, d) puts d at position idx, the store grows by one
\* and the other dives keep their order; delete_single_dive(idx) takes out the
\* dive at idx and only that one, the store shrinks by one and the rest keep
\* their order; delete_single_dive on an index that holds no dive changes nothing.
C30_InsertAndRemoveAtIndex ==
    [][/\ last'.op = "add_single" =>
            /\ Len(dive_table') = Len(dive_table) + 1
            /\ dive_table'[last'.pre.idx + 1] = last'.d
            /\ Keep(dive_table', Dives \ {last'.d}) = dive_table
       /\ last'.op = "delete_single" /\ dive_at(dive_table, last'.pre.idx) # NULL =>
            /\ Len(dive_table') = Len(dive_table) - 1
            /\ dive_table' = Keep(dive_table, Dives \ {dive_table[last'.pre.idx + 1]})
       /\ last'.op = "delete_single" /\ dive_at(dive_table, last'.pre.idx) = NULL =>
            UNCHANGED <<dive_table, heapvars, selvars>>
      ]_vars

\* a dive was taken out of the middle of a store that add_single_dive had put
\* out of time order
C30_Witness ==
    /\ last.op = "delete_single"
    /\ last.d # NULL
    /\ last.pre.idx > 0
    /\ last.pre.idx < Len(last.pre.table) - 1
    /\ \E i \in 1..(Len(last.pre.table) - 1) :
          when[last.pre.table[i]] > when[last.pre.table[i + 1]]
    /\ Len(dive_table) = Len(last.pre.table) - 1

\* ---- dive_nr_sort: the keys two rows are ordered by ----
Sign(x) == IF x > 0 THEN 1 ELSE IF x < 0 THEN 0 - 1 ELSE 0

\* the key of row r against row other: the start time of its trip when the
\* two have different trips, its own timestamp otherwise
SortKey(r, other) ==
    IF r.trip # other.trip /\ r.trip # NULL THEN trip[r.trip].when ELSE r.date

\* C24: dive_nr_sort compares two entries by their own timestamps when both
\* belong to the same trip or neither belongs to a trip; when their trips
\* differ, each entry that has a trip is compared by the start time of its
\* trip; the sign of the result is the sign of the difference of these keys.
C24_SortByTripStart ==
    last.op = "sort" =>
        Sign(last.pre.ret) = Sign(SortKey(last.pre.a, last.pre.b)
                                  - SortKey(last.pre.b, last.pre.a))

\* C25: for every trip with a display row assigned by fill_dive_list (row id
\* -k, trip->index = k) find_trip_by_idx of that row id returns the trip; for
\* an id that belongs to no trip it returns nothing.
C25_LookupByRowId ==
    last.op = "find_idx" =>
        IF \E t \in Range(dive_trip_list) :
              trip[t].index > 0 /\ last.pre.idx = 0 - trip[t].index
        THEN last.t # NULL /\ trip[last.t].index > 0
                           /\ last.pre.idx = 0 - trip[last.t].index
        ELSE last.t = NULL

\* ---- find_matching_trip: the trip a time falls into ----
\* the listed trips that start at or before w
StartedBy(w) == {t \in Range(dive_trip_list) : trip[t].when <= w}

\* C26: find_matching_trip(t) returns the trip with the greatest start time at
\* or before t among the trips of dive_trip_list, and nothing when the list
\* is empty or every trip starts after t.
C26_LatestTripAtOrBefore ==
    last.op = "find_when" =>
        IF StartedBy(last.pre.when) = {}
        THEN last.t = NULL
        ELSE /\ last.t \in StartedBy(last.pre.when)
             /\ \A u \in StartedBy(last.pre.when) : trip[u].when <= trip[last.t].when

\* ---- edit_dive_when_cb: the trip of the dive whose date was changed ----
\* the listed trips with the greatest start time at or before w
LatestStartedBy(w) ==
    {t \in StartedBy(w) : \A u \in StartedBy(w) : trip[u].when <= trip[t].when}

\* the dive whose date the step changes
Edited == {d \in Dives : when'[d] # when[d]}

\* the other members of the trip of d
Mates(d) == MembersOf(Heap, divetrip[d]) \ {d}

\* the new date of d lies before the start of its trip, or the latest trip
\* that starts at or before it is another trip
DateLeavesTrip(d) ==
    \/ trip[divetrip[d]].when > when'[d]
    \/ divetrip[d] \notin LatestStartedBy(when'[d])

\* C27: when the date of a dive is changed to a time before the start of its
\* trip, or to a time for which the latest trip starting at or before it is
\* another trip, the dive leaves its trip and is, after the operation, a
\* member of a trip (the one its new date falls into or a new one); the only
\* member of a trip stays in it and the trip starts at the new date.
C27_EditMovesDiveBetweenTrips ==
    [][last'.op = "edit" =>
         \A d \in Edited :
            /\ (divetrip[d] # NULL /\ Mates(d) # {} /\ DateLeavesTrip(d)) =>
                  /\ divetrip'[d] # NULL
                  /\ \A e \in Mates(d) : divetrip'[e] # divetrip'[d]
            /\ (divetrip[d] # NULL /\ Mates(d) = {}) =>
                  /\ divetrip'[d] # NULL
                  /\ trip'[divetrip'[d]].when = when'[d]
                  /\ \A e \in Dives \ {d} : divetrip'[e] # divetrip'[d]
      ]_vars

\* ---- init_decompression: the trip of the dives it feeds ----
\* the dives before the target that are in the trip of the target
SameTrip ==
    {p \in 1..(deco.dive - 1) :
        deco_table[p].divetrip = deco_table[deco.dive].divetrip}

\* C28: when the target is in a trip, no call that init_decompression makes is
\* fed from a dive of another trip or of no trip, and every surface interval
\* starts at the end of a dive of that trip (backward search and forward
\* replay); when the target is in no trip, the dives before it are replayed
\* whatever their trip: none between a replayed dive and the target is left out.
C28_ReplaysOwnTripOnly ==
    DecoCalled =>
        IF deco_table[deco.dive].divetrip # NULL
        THEN \A k \in DOMAIN deco.calls :
                /\ deco.calls[k].dive \in SameTrip \cup {deco.dive}
                /\ deco.calls[k].kind = "surface" =>
                      \E p \in SameTrip : deco.calls[k].start = DecoEnd(p)
        ELSE \A p \in ReplayedDives :
                \A q \in (p + 1)..(deco.dive - 1) : q \in ReplayedDives

\* the target is in a trip; a dive of that trip was replayed and a later dive
\* of another trip, still before the target, was passed over
C28_Witness ==
    /\ DecoCalled
    /\ deco_table[deco.dive].divetrip # NULL
    /\ \E p \in ReplayedDives \cap SameTrip :
          \E q \in (p + 1)..(deco.dive - 1) :
             /\ deco_table[q].divetrip \notin {NULL, deco_table[deco.dive].divetrip}
             /\ q \notin ReplayedDives
             /\ DecoEnd(q) + FORTY_EIGHT_HOURS >= deco_table[deco.dive].when

\* ---- autogroup_dives next to trips that exist already ----
\* the heap of the next state
HeapNext == [when |-> when', divetrip |-> divetrip', next |-> next', pprev |-> pprev',
             tripflag |-> tripflag', trip |-> trip', live |-> live',
             list |-> dive_trip_list', err |-> err']

\* the step ran autogroup_dives on the state it started from
AutogroupRuns ==
    \/ last'.op = "autogroup" /\ last'.pre.on
    \/ last'.op = "update" /\ last'.pre.on

\* the dive has no trip and asks for one
Ungrouped(d) == divetrip[d] = NULL /\ tripflag[d] = "TF_NONE"

\* C31: in autogroup_dives the last dive remembered has a trip whenever a dive
\* joins it, so add_dive_to_trip never gets a null trip: the run does not
\* crash and every dive that asked for a trip is in one; a dive without trip
\* that follows a dive with a trip within the threshold joins the trip of
\* that dive.
C31_JoinsTripOfLastDive ==
    [][AutogroupRuns =>
         /\ err' = "ok"
         /\ \A d \in Dives : Ungrouped(d) => divetrip'[d] # NULL
         /\ \A i \in 1..(Len(dive_table) - 1) :
               (/\ divetrip[dive_table[i]] # NULL
                /\ Ungrouped(dive_table[i + 1])
                /\ when[dive_table[i + 1]] < when[dive_table[i]] + TRIP_THRESHOLD)
               => divetrip'[dive_table[i + 1]] = divetrip'[dive_table[i]]
      ]_vars

\* a dive without trip followed a dive of a trip made by hand, within the
\* threshold, and is in that trip now; before it a dive that takes no trip
C31_Witness ==
    /\ err = "ok" /\ last.op = "autogroup" /\ last.pre.on
    /\ \E i \in 1..(Len(dive_table) - 1) :
          /\ divetrip[dive_table[i]] # NULL
          /\ trip[divetrip[dive_table[i]]].autogen = 0
          /\ divetrip[dive_table[i + 1]] = divetrip[dive_table[i]]
          /\ tripflag[dive_table[i + 1]] = "ASSIGNED_TRIP"
    /\ \E d \in Dives : tripflag[d] = "NO_TRIP"

\* ---- merge_trips_cb: the source trip after its last dive has left ----
\* C32: the merge loop never reads or writes the source trip after the source
\* has been deleted: once the removal of its last member has made
\* remove_dive_from_trip call delete_trip on it, no field of it is accessed.
C32_NoAccessAfterDelete ==
    last.op = "merge" => ~ last.pre.freed

\* ---- delete_single_dive on dives that are in trips ----
NextDel ==
    \/ \E d \in Range(dive_table) : TurnDiveIntoTrip(d)
    \/ \E d \in Range(dive_table), t \in TripIds : MergeDiveIntoTripAbove(d, t)
    \/ \E d \in Range(dive_table) : RemoveFromTrip(d)
    \/ \E a, b \in TripIds : MergeTrips(a, b)
    \/ \E t \in TripIds : InsertTripBefore(t)
    \/ \E idx \in (0 - 1)..NDives : DeleteSingleDive(idx)

SpecDel == InitSel /\ [][NextDel]_vars

\* the member sets of the listed trips, before and after the step
MemberSets == {MembersOf(Heap, t) : t \in Listed}

MemberSetsNext == {MembersOf(HeapNext, t) : t \in Range(dive_trip_list')}

\* C33: after delete_single_dive(idx) no member list of a trip holds the
\* deleted dive: when it was the only member its trip has left dive_trip_list,
\* otherwise the trip stays with the count and the start time of the members
\* that remain.
C33_DeleteLeavesNoMember ==
    [][(last'.op = "delete_single" /\ last'.d # NULL) =>
         LET dive == last'.d
             rest == MembersOf(Heap, divetrip[dive]) \ {dive}
         IN /\ divetrip'[dive] = NULL
            /\ \A t \in Range(dive_trip_list') :
                  /\ dive \notin Range(ChainOf(HeapNext, t))
                  /\ dive \notin MembersOf(HeapNext, t)
            /\ (divetrip[dive] # NULL /\ rest = {}) =>
                  /\ Len(dive_trip_list') = Len(dive_trip_list) - 1
                  /\ MemberSetsNext = MemberSets \ {{dive}}
            /\ (divetrip[dive] # NULL /\ rest # {}) =>
                  \E t \in Range(dive_trip_list') :
                      /\ MembersOf(HeapNext, t) = rest
                      /\ trip'[t].nrdives = Cardinality(rest)
                      /\ trip'[t].when = MinWhenOf(rest)
      ]_vars

\* ---- remove_autogen_trips ----
\* the step switched automatic grouping off: remove_autogen_trips ran
AutogenRemoved == last'.op = "autogroup" /\ ~ last'.pre.on

\* C34: after remove_autogen_trips no trip of dive_trip_list is flagged autogen
\* and no dive is a member of such a trip, while every trip that is not
\* flagged autogen keeps exactly its members, its count and its start time.
C34_OnlyAutogenTripsRemoved ==
    [][AutogenRemoved =>
         /\ err' = "ok"
         /\ \A t \in Range(dive_trip_list') : trip'[t].autogen = 0
         /\ \A d \in Dives :
               /\ divetrip'[d] # NULL => trip'[divetrip'[d]].autogen = 0
               /\ (divetrip[d] # NULL /\ trip[divetrip[d]].autogen # 0)
                     => divetrip'[d] = NULL
         /\ Len(dive_trip_list') =
               Cardinality({t \in Listed : trip[t].autogen = 0})
         /\ \A t \in Listed :
               trip[t].autogen = 0 =>
                  \E u \in Range(dive_trip_list') :
                      /\ MembersOf(HeapNext, u) = MembersOf(Heap, t)
                      /\ Range(ChainOf(HeapNext, u)) = MembersOf(Heap, t)
                      /\ trip'[u].nrdives = trip[t].nrdives
                      /\ trip'[u].when = trip[t].when
      ]_vars

\* automatic grouping was switched off while a trip made by it and a trip made
\* by hand were in the list; the trip made by hand is still there
C34_Witness ==
    /\ err = "ok" /\ last.op = "autogroup" /\ ~ last.pre.on
    /\ last.pre.autogen # {}
    /\ \E t \in Listed : trip[t].autogen = 0 /\ trip[t].nrdives > 0
    /\ \E d \in Dives : divetrip[d] = NULL /\ \E m \in last.pre.autogen : d \in m

\* ---- autogroup_dives run twice ----
\* the state is the result of a run of autogroup_dives
AfterAutogroup ==
    /\ err = "ok"
    /\ \/ last.op = "autogroup" /\ last.pre.on
       \/ last.op = "update" /\ last.pre.on

\* the step is a run of autogroup_dives through dive_list_update_dives
SecondRun == AfterAutogroup /\ last'.op = "update" /\ last'.pre.on

\* C35: autogroup_dives is idempotent: a second run directly after a first
\* changes no dive's trip, no trip's member set, count, start time or autogen
\* flag, and creates no trip.
C35_AutogroupIdempotent ==
    [][SecondRun =>
         /\ err' = "ok"
         /\ divetrip' = divetrip
         /\ dive_trip_list' = dive_trip_list
         /\ live' = live
         /\ \A t \in live :
               /\ MembersOf(HeapNext, t) = MembersOf(Heap, t)
               /\ Range(ChainOf(HeapNext, t)) = Range(ChainOf(Heap, t))
               /\ trip'[t].nrdives = trip[t].nrdives
               /\ trip'[t].when = trip[t].when
               /\ trip'[t].autogen = trip[t].autogen
      ]_vars

\* two runs in a row, with trips made by the first one: one trip of two
\* dives or more, and two trips or more
C35_Witness ==
    /\ err = "ok" /\ last.op = "update" /\ last.pre.on /\ last.pre.twice
    /\ \E t \in Listed : trip[t].autogen # 0 /\ trip[t].nrdives > 1
    /\ Len(dive_trip_list) > 1

\* ---- init_decompression: clear_deco and the exposure segments ----
\* the positions of the calls of clear_deco in the last invocation
ClearDecoCalls == {i \in 1..Len(deco.calls) : deco.calls[i].kind = "clear_deco"}

\* the positions of the add_segment calls: seconds of a profile and surface
\* intervals
SegmentCalls == {i \in 1..Len(deco.calls) : deco.calls[i].kind \in {"sample", "surface"}}

\* C36: every invocation of init_decompression with a non-null dive calls
\* clear_deco exactly once, and when exposure segments are applied in that
\* invocation the call of clear_deco comes before all of them.
C36_ClearDecoOnceAndFirst ==
    DecoCalled =>
        /\ Cardinality(ClearDecoCalls) = 1
        /\ \A i \in SegmentCalls : \A c \in ClearDecoCalls : c < i

\* an invocation that fed the seconds of a profile, a surface interval between
\* two dives and the final surface interval
C36_Witness ==
    /\ DecoCalled
    /\ \E i \in SegmentCalls : deco.calls[i].kind = "sample"
    /\ \E i, j \in SegmentCalls :
          /\ i < j
          /\ deco.calls[i].kind = "surface" /\ deco.calls[i].dive # deco.dive
          /\ deco.calls[j].kind = "surface" /\ deco.calls[j].dive = deco.dive

\* ---- show_and_select_dive on a dive that is not in the store ----
\* the step called show_and_select_dive with a dive the store does not hold
ShownAbsent == last'.op = "show" /\ last'.d \notin Range(dive_table)

\* C37: show_and_select_dive called with a dive that is not in the store
\* returns early and changes nothing: amount_selected, selected_dive and every
\* selected flag keep their values, and selected_dive does not become an index
\* outside the store.
C37_ShowAbsentChangesNothing ==
    [][ShownAbsent =>
         /\ amount_selected' = amount_selected
         /\ selected_dive' = selected_dive
         /\ selected' = selected
         /\ (selected_dive' # selected_dive
                => selected_dive' \in 0..(Len(dive_table') - 1))
      ]_vars

\* ---- selected_dive under select_dive, deselect_dive and delete_single_dive ----
NextPick ==
    \/ \E idx \in (0 - 1)..NDives : SelectDive(idx)
    \/ \E idx \in (0 - 1)..NDives : DeselectDive(idx)
    \/ \E idx \in (0 - 1)..NDives : DeleteSingleDive(idx)

SpecPick == InitSel /\ [][NextPick]_vars

\* selected_dive is the index of a dive of the store whose flag is set
CurrentIsSelected ==
    /\ dive_at(dive_table, selected_dive) # NULL
    /\ selected[dive_at(dive_table, selected_dive)]

\* the step was a deselect_dive that cleared the flag of the last selected dive
DeselectedLast ==
    /\ last'.op = "deselect" /\ last'.d # NULL
    /\ selected[last'.d] /\ ~ selected'[last'.d]
    /\ \A d \in Range(dive_table') : ~ selected'[d]

\* C38: after deselect_dive, and after any sequence of select_dive,
\* deselect_dive and delete_single_dive, selected_dive is the index of a dive
\* whose selected flag is set whenever amount_selected > 0, and it is -1 after
\* deselect_dive has left no dive selected.
C38_CurrentDiveIsSelected ==
    [][/\ amount_selected' > 0 => CurrentIsSelected'
       /\ DeselectedLast => selected_dive' = 0 - 1
      ]_vars

\* ---- dive_nr_sort: the difference of two timestamps returned as gint ----
\* when_a - when_b of the last comparison, before it is narrowed to gint
KeyDifference ==
    row_when(Heap, dive_table, last.pre.a, last.pre.b)
        - row_when(Heap, dive_table, last.pre.b, last.pre.a)

\* C39: for every pair of 64-bit timestamps the int result of dive_nr_sort has
\* the sign of the mathematical difference of the two keys it compares: a
\* positive difference gives a positive result, a negative one a negative
\* result, equal keys give 0; narrowing to int never flips the sign.
C39_NarrowingKeepsSign ==
    last.op = "sort" =>
        /\ KeyDifference > 0 => last.pre.ret > 0
        /\ KeyDifference < 0 => last.pre.ret < 0
        /\ KeyDifference = 0 => last.pre.ret = 0

\* ---- the member list of a trip and its back-pointers ----
\* the slot d->pprev points to holds d: the dives pointer of the trip of d for
\* the first member, the next pointer of the member before d otherwise
SlotHolds(d) ==
    \/ /\ pprev[d] = <<"T", divetrip[d]>>
       /\ trip[divetrip[d]].dives = d
    \/ \E e \in MembersOf(Heap, divetrip[d]) \ {d} :
          /\ pprev[d] = <<"D", e>>
          /\ next[e] = d

WellFormedMembers ==
    err = "ok" =>
        \A d \in Dives : divetrip[d] # NULL =>
            /\ divetrip[d] \in live
            /\ SlotHolds(d)

\* the step took dive d out of a trip that keeps other members
Unlinked(d) ==
    /\ last'.op = "remove" /\ err' = "ok"
    /\ divetrip[d] # NULL /\ divetrip'[d] = NULL
    /\ MembersOf(Heap, divetrip[d]) # {d}

\* C40: the member list of a trip stays well formed under every sequence of
\* add_dive_to_trip and remove_dive_from_trip: for every member d the slot
\* d->pprev points to holds d, so unlinking through the back-pointer takes
\* exactly d out of the list and leaves the other members in their order.
C40_BackPointersWellFormed ==
    [][/\ WellFormedMembers'
       /\ \A d \in Dives : Unlinked(d) =>
             \A e \in MembersOf(Heap, divetrip[d]) \ {d} :
                 /\ divetrip'[e] # NULL
                 /\ ChainOf(HeapNext, divetrip'[e])
                       = Keep(ChainOf(Heap, divetrip[d]),
                              MembersOf(Heap, divetrip[d]) \ {d})
      ]_vars

\* a dive was unlinked from a trip of three; the two that remain are linked to
\* each other
C40_Witness ==
    /\ err = "ok" /\ last.op = "remove"
    /\ ~ last.pre.notrip /\ ~ last.pre.sole
    /\ \E t \in Listed :
          /\ trip[t].nrdives = 2
          /\ \E d, e \in MembersOf(Heap, t) :
                /\ pprev[e] = <<"T", t>>
                /\ pprev[d] = <<"D", e>>

====
